---------------------------- MODULE Spec2Model ----------------------------
(***************************************************************************)
(* A model of the peer transfer engine of snapdrop:                        *)
(*   src/src/lib/webrtc.ts  class WebRTCManager                            *)
(* The sender (sendFile / readNextChunk), the receiver (handleChunk), the  *)
(* signaling handlers, the byte-channel life cycle and disconnect(); and   *)
(*   src/src/App.tsx        startTransfer, the loop over the queued files, *)
(*                          cancelSession, and the handlers that construct *)
(*                          a manager.                                     *)
(*                                                                         *)
(* The specifications share the channel life cycle:                        *)
(*   SpecRecv    frames arriving on the channel and their reassembly;      *)
(*   SpecSend    sendFile calls, the flow-control loop and teardown;       *)
(*   SpecSignal  the signaling handlers and the state reports;             *)
(*   SpecBatch   startTransfer over a queue of files, cancelSession, and   *)
(*               the managers constructed after it;                        *)
(*   SpecCodec   the frame header, encoded and parsed;                     *)
(*   SpecFiles   frames of several files in flight, and disconnect();      *)
(*   SpecSendFair  one sendFile call under fair scheduling;                *)
(* and, with src/server.ts, the relay:                                     *)
(*   SpecRoom    the two sessions of a room joining and shaking hands.     *)
(***************************************************************************)
EXTENDS Integers, Sequences, FiniteSets, TLC

\* ------------------------------------------------------------------ bounds

\* Frames delivered to the receiver in one behaviour.
MaxFrames == 3
\* The clock (Date.now(), in milliseconds) runs from 0 to MaxTime.
MaxTime == 1
\* Largest file handed to sendFile, in whole chunks.
MaxFileChunks == 4
\* Signaling messages delivered to one session in one behaviour.
MaxSignals == 3
\* onStateChange calls after which the connection in the field changes its
\* state no more; an event of a replaced connection is followed for one call
\* more.
MaxReports == 1
\* Managers the application constructs in one behaviour.
MaxManagers == 2
\* -------------------------------------------------------- program constants

\* const chunkSize = 64 * 1024
ChunkSize == 65536
\* the flow-control mark: bufferedAmount > 1024 * 1024 * 4
HighWaterMark == 4194304
\* new ArrayBuffer(44): 36 bytes of fileId, 4 of chunkIndex, 4 of totalChunks
HeaderLen == 44
\* fileId.padEnd(36, ' ')
IdLen == 36
\* the code point of ' ', the padding padEnd adds
Space == 32
\* Date.now() is in milliseconds, elapsed is in seconds: / 1000
MsPerSec == 1000

\* ------------------------------------------------------------- JS numbers
(***************************************************************************)
(* A JavaScript number that the estimator produces: a reduced fraction     *)
(* num/den with den > 0, or, with den = 0, Infinity (num = 1), -Infinity   *)
(* (num = -1) or NaN (num = 0).  Division follows IEEE 754 for the zero    *)
(* and infinite cases; the rounding of a double is not modelled (the       *)
(* values are exact rationals) and neither is the sign of a zero.          *)
(***************************************************************************)
RECURSIVE Gcd(_, _)
Gcd(a, b) == IF b = 0 THEN a ELSE Gcd(b, a % b)

Abs(x) == IF x < 0 THEN -x ELSE x

Sign(x) == IF x < 0 THEN -1 ELSE IF x > 0 THEN 1 ELSE 0

JsNaN == [num |-> 0, den |-> 0]

JsInf(s) == [num |-> s, den |-> 0]

\* The fraction n/d, d # 0, reduced and with a positive denominator.
JsFrac(n, d) ==
    LET g == Gcd(Abs(n), Abs(d))
    IN  [num |-> Sign(d) * (n \div g), den |-> Abs(d) \div g]

JsInt(n) == [num |-> n, den |-> 1]

IsNaN(x) == x.den = 0 /\ x.num = 0

IsFinite(x) == x.den > 0

\* a / b
JsDiv(a, b) ==
    IF IsNaN(a) \/ IsNaN(b) THEN JsNaN
    ELSE IF ~IsFinite(a) THEN (IF ~IsFinite(b) THEN JsNaN
                               ELSE JsInf(a.num * (IF b.num < 0 THEN -1 ELSE 1)))
    ELSE IF ~IsFinite(b) THEN JsInt(0)
    ELSE IF b.num = 0 THEN (IF a.num = 0 THEN JsNaN ELSE JsInf(Sign(a.num)))
    ELSE JsFrac(a.num * b.den, a.den * b.num)

\* a * b
JsMul(a, b) ==
    IF IsNaN(a) \/ IsNaN(b) THEN JsNaN
    ELSE IF ~IsFinite(a) \/ ~IsFinite(b)
         THEN (IF a.num = 0 \/ b.num = 0 THEN JsNaN
               ELSE JsInf(Sign(a.num) * Sign(b.num)))
    ELSE JsFrac(a.num * b.num, a.den * b.den)

\* a - b, for finite a and b (the estimator subtracts byte counts only)
JsSub(a, b) == JsFrac(a.num * b.den - b.num * a.den, a.den * b.den)

\* --------------------------------------------------------------- the codec
(***************************************************************************)
(* A fileId is a string, here the sequence of its code points (all below   *)
(* 128, so that TextEncoder yields one byte per character).  A buffer is a *)
(* sequence of bytes.                                                      *)
(***************************************************************************)
UndefinedBytes == <<117, 110, 100, 101, 102, 105, 110, 101, 100>>

\* s.padEnd(n, ' ')
PadEnd(s, n) == s \o [i \in 1..(IF Len(s) < n THEN n - Len(s) ELSE 0) |-> Space]

\* The white space String.prototype.trim removes, among the code points below
\* 128: tab, line feed, vertical tab, form feed, carriage return, space.
WhiteSpace == {9, 10, 11, 12, 13, 32}

\* s.trim(): s without its leading and trailing white space.
Trim(s) ==
    LET kept == {i \in 1..Len(s) : s[i] \notin WhiteSpace}
    IN  IF kept = {} THEN <<>>
        ELSE SubSeq(s, CHOOSE i \in kept : \A j \in kept : i <= j,
                       CHOOSE i \in kept : \A j \in kept : j <= i)

\* DataView.setUint32(_, x, true): the four little-endian bytes of x mod 2^32.
\* The model's integers are below 2^31, where x mod 2^32 is x.
U32Bytes(x) ==
    <<x % 256, (x \div 256) % 256, (x \div 65536) % 256, (x \div 16777216) % 256>>

\* DataView.getUint32(at, true), at a 0-based byte offset
U32At(buf, at) ==
    buf[at + 1] + 256 * buf[at + 2] + 65536 * buf[at + 3] + 16777216 * buf[at + 4]

\* new Uint8Array(header).set(idBytes, 0) accepts the bytes of the padded
\* fileId: they are no more than the header holds.  It throws a RangeError on
\* more, and no header is built.
Fits(fileId) == Len(PadEnd(fileId, IdLen)) <= HeaderLen

\* The 44-byte header the sender builds: the bytes of the padded fileId are
\* written first, the two integers over them at 36 and 40.  Where the bytes of
\* the fileId do not fit there is no header, written <<>>: the caller has left
\* with the exception.
EncodeHeader(fileId, chunkIndex, totalChunks) ==
    LET idBytes == PadEnd(fileId, IdLen)
        base    == [i \in 1..HeaderLen |-> IF i <= Len(idBytes) THEN idBytes[i] ELSE 0]
    IN  IF Fits(fileId)
        THEN SubSeq(base, 1, IdLen) \o U32Bytes(chunkIndex) \o U32Bytes(totalChunks)
        ELSE <<>>

\* The header fields handleChunk reads from a buffer of at least 44 bytes.
ParseHeader(buffer) ==
    [fileId      |-> Trim(SubSeq(buffer, 1, IdLen)),
     chunkIndex  |-> U32At(buffer, IdLen),
     totalChunks |-> U32At(buffer, IdLen + 4),
     data        |-> SubSeq(buffer, HeaderLen + 1, Len(buffer))]

\* ------------------------------------------------------------------ inputs

\* The fileIds in play: "A" and "B".
FileIdA == <<65>>

FileIdB == <<66>>

\* The chunkIndex and totalChunks values of the delivered frames: an index may
\* lie outside the range 0..totalChunks-1 its own frame declares.
ChunkIndexes == {0, 1, 2}

TotalChunks == {0, 1, 2, 3}

\* The payload a delivered frame carries at an index: one byte, two bytes, or
\* none, so that the payloads of different indexes differ in bytes and length.
PayloadAt(index) ==
    CASE index = 0 -> <<10>>
      [] index = 1 -> <<21, 31>>
      [] OTHER     -> <<>>

\* The frames of file f that may arrive, as the sender's arguments.
FramesOf(f) ==
    {[fileId |-> f, chunkIndex |-> i, totalChunks |-> n, data |-> PayloadAt(i)] :
        i \in ChunkIndexes, n \in TotalChunks}

\* The binary messages shorter than a header that may arrive: an empty one,
\* and the first 43 bytes of the frame of a one-chunk file.
ShortBuffers ==
    {<<>>, SubSeq(EncodeHeader(FileIdA, 0, 1), 1, HeaderLen - 1)}

\* The sizes of the files handed to sendFile: every whole number of chunks up
\* to MaxFileChunks, one byte more and one byte less than each, and 200000.
FileSizes ==
    {s \in {k * ChunkSize + r : k \in 0..MaxFileChunks, r \in {-1, 0, 1}} \cup {200000} :
        s >= 0 /\ s <= MaxFileChunks * ChunkSize}

\* The calls of sendFile a behaviour may make.
Calls == {"c1", "c2", "c3", "c4"}

\* The socket handles of the other members of the room.
Peers == {"p1", "p2"}

\* The signaling messages the relay may deliver to the session.
SignalTypes == {"user-joined", "offer", "answer", "ice-candidate"}

\* The connectionState values the transport may move a live connection to.
ConnectionStates == {"connecting", "connected", "disconnected", "failed"}

\* A connectionstatechange event is fired when the state has changed; the
\* handler imposes no order on the states.
MayFollow(from, to) == to # from

\* The RTCPeerConnection objects a session may create, in this order.
Connections == <<"pc1", "pc2">>

\* The invocations of startTransfer a behaviour may make.
Tasks == {"t1", "t2"}

\* The sendFile calls of each startTransfer, one per queued file, in order.
TaskCalls == [t \in Tasks |-> IF t = "t1" THEN <<"c1", "c2">> ELSE <<"c3", "c4">>]

\* A startTransfer that has not been invoked: its status, the 1-based index of
\* the file whose sendFile it awaits, and the queue as it was when invoked.
IdleTask == [status |-> "idle", i |-> 0, files |-> <<>>]

\* The sizes of the files the user selects: one slice, or two.
BatchSizes == {1, ChunkSize + 1}

\* The selections of the user: one file, of one slice or of two, or a file
\* of two slices and a file of one, each with its own id.
Batches ==
    {<<[fileId |-> FileIdA, size |-> a]>> : a \in BatchSizes}
    \cup {<<[fileId |-> FileIdA, size |-> ChunkSize + 1], [fileId |-> FileIdB, size |-> 1]>>}

\* The outbound-buffer depths the channel may report.
BufferLevels == {0, HighWaterMark, HighWaterMark + 1}

\* ------------------------------------------------------------------- state

VARIABLES
    \* the session
    isInitiator,      \* constructor argument
    socket,           \* "connecting" | "connected" | "disconnected"
    peerConnection,   \* "null" | "live" | "closed"
    dataChannel,      \* "null", or the readyState of this.dataChannel
    bufferedAmount,   \* this.dataChannel.bufferedAmount
    now,              \* Date.now()
    torndown,         \* disconnect() has been invoked
    interrupted,      \* the sendFile calls that were running when it was
    announce,         \* the connection in the field has yet to announce the
                      \* peer's channel (responder: ondatachannel is pending)
    staleAnnounce,    \* a connection that was replaced in the field, and never
                      \* closed, has yet to announce the peer's channel
    created,          \* number of RTCPeerConnection objects created so far
    stateChanges,     \* the onStateChange calls so far, in order
    channelConn,      \* the number of the connection whose channel the field
                      \* holds (0 without a channel)
    staleChannel,     \* "none", or the readyState of the channel that was
                      \* displaced from the field: it keeps its handlers
    \* signaling
    targetSocketId,   \* "null", or the handle of the recorded peer
    connectionState,  \* peerConnection.connectionState ("none" without one)
    signals,          \* the signaling messages handled so far: type -> count
    suspended,        \* the handlers suspended at an await
    emitted,          \* the signaling messages emitted, in order
    applied,          \* what was applied to a peer connection, in order
    \* the receiver
    receivedChunks,   \* Map fileId -> sparse array: a function index -> payload
    receivedBytes,    \* Map fileId -> number
    startTime,        \* Map fileId -> Date.now() of the first frame
    delivered,        \* number of binary messages handled so far
    rxProgress,       \* the onFileProgress calls of the last handleChunk
    completed,        \* the onFileComplete calls so far: <<[fileId, blob]>>
    arrived,          \* the frames handled so far, as sent: frame -> count
    malformed,        \* number of messages shorter than a header handled so far
    \* the sender
    pc,               \* per call: where the sendFile invocation stands
    callFile,         \* per call: [fileId, size] of its arguments
    offset,           \* per call: let offset
    chunkIndex,       \* per call: let chunkIndex
    callStart,        \* per call: const startTime = Date.now()
    observed,         \* per call: the bufferedAmount its last check read
    sent,             \* the frames the channel accepted, in order
    txProgress,       \* the onFileProgress calls of sendFile, in order
    \* the application (App.tsx)
    filesToTransfer,  \* the queue: <<[fileId, size]>>
    task,             \* per startTransfer invocation: where its loop stands
    resetAt,          \* the number of onStateChange calls of the manager there
                      \* had been when the application's connectionState was
                      \* last set otherwise than by one of them
    resetTo,          \* what it was set to then
    view,             \* the view the application's handlers last set, and the
                      \* number of onStateChange calls there had been then
    retired,          \* what is left of the managers that were replaced: their
                      \* number, their sendFile calls that are pending, and the
                      \* number of their channels that can still open, for those
                      \* constructed as initiator (TRUE) and as responder (FALSE)
    \* the codec on its own
    codec,            \* the header fields encoded, and what parsing returned
    \* the room at the relay (server.ts)
    room              \* the sockets in the room and the messages under way

sessionVars == <<isInitiator, socket, peerConnection, dataChannel, bufferedAmount, now, torndown, interrupted,
                 announce, staleAnnounce, created, stateChanges, channelConn, staleChannel>>

signalVars == <<targetSocketId, connectionState, signals, suspended, emitted, applied>>

recvVars == <<receivedChunks, receivedBytes, startTime, delivered, rxProgress, completed, arrived,
              malformed>>

sendVars == <<pc, callFile, offset, chunkIndex, callStart, observed, sent, txProgress>>

appVars == <<filesToTransfer, task, resetAt, resetTo, view, retired>>

vars == <<sessionVars, signalVars, recvVars, sendVars, appVars, codec, room>>

\* ---------------------------------------------------------------- JS maps

\* new Map()
EmptyMap == <<>>

\* m.set(k, v); also a[k] = v on a sparse array
MapSet(m, k, v) == [x \in (DOMAIN m) \cup {k} |-> IF x = k THEN v ELSE m[x]]

\* A map whose delete empties it: m.clear()
MapDelete_Clear(m, k) == <<>>

\* m.delete(k)
MapDelete(m, k) == [x \in (DOMAIN m) \ {k} |-> m[x]]

\* ------------------------------------------------------------ the session

\* The two sessions of a room: the one constructed as initiator, and the one
\* constructed as responder.
Members == {"initiator", "responder"}

\* The socket ids the relay assigns, in this order.
SocketIds == <<"s1", "s2", "s3">>

\* The ICE candidates a peer connection gathers.
Candidates == {"k1", "k2"}

\* The room before any socket has connected.  Of each member: the id of its
\* socket ("none" while it is not connected), the messages the relay has
\* emitted to that socket and it has yet to handle, the events it emitted
\* while its socket was not connected, its targetSocketId, the number of peer
\* connections it has created and those of them that have a local
\* description.  Of the room: the ids assigned, the members that called
\* disconnect(), the handlers suspended at an await, the socket ids that
\* offers were addressed to, the socket ids that emitted an answer, and the
\* candidates gathered.
EmptyRoom ==
    [id |-> [m \in Members |-> "none"], assigned |-> 0, left |-> {},
     inflight |-> [m \in Members |-> <<>>], buffered |-> [m \in Members |-> <<>>],
     target |-> [m \in Members |-> "null"], conns |-> [m \in Members |-> 0],
     local |-> [m \in Members |-> {}], jobs |-> {},
     offered |-> {}, answered |-> {}, gathered |-> {}]

\* The codec at rest: nothing encoded, nothing parsed.
NoCodec == [phase |-> "idle"]

\* The state after new WebRTCManager(roomId, isInitiator) and the first render of
\* the application, the codec apart.
Constructed ==
    /\ isInitiator \in BOOLEAN
    /\ socket = "connecting"
    /\ peerConnection = "null"
    /\ dataChannel = "null"
    /\ bufferedAmount = 0
    /\ now = 0
    /\ torndown = FALSE
    /\ interrupted = {}
    /\ announce = FALSE
    /\ staleAnnounce = FALSE
    /\ created = 0
    /\ stateChanges = <<>>
    /\ channelConn = 0
    /\ staleChannel = "none"
    /\ targetSocketId = "null"
    /\ connectionState = "none"
    /\ signals = EmptyMap
    /\ suspended = {}
    /\ emitted = <<>>
    /\ applied = <<>>
    /\ receivedChunks = EmptyMap
    /\ receivedBytes = EmptyMap
    /\ startTime = EmptyMap
    /\ delivered = 0
    /\ rxProgress = <<>>
    /\ completed = <<>>
    /\ arrived = EmptyMap
    /\ malformed = 0
    /\ pc = [c \in Calls |-> "idle"]
    /\ callFile = [c \in Calls |-> [fileId |-> <<>>, size |-> 0]]
    /\ offset = [c \in Calls |-> 0]
    /\ chunkIndex = [c \in Calls |-> 0]
    /\ callStart = [c \in Calls |-> 0]
    /\ observed = [c \in Calls |-> 0]
    /\ sent = <<>>
    /\ txProgress = <<>>
    /\ filesToTransfer = <<>>
    /\ task = [t \in Tasks |-> IdleTask]
    /\ resetAt = 0
    /\ resetTo = "disconnected"
    /\ view = [set |-> IF isInitiator THEN "send" ELSE "transfer", at |-> 0]
    /\ retired = [managers |-> 0, calls |-> {}, opening |-> [i \in BOOLEAN |-> 0]]
    /\ room = EmptyRoom

Init == Constructed /\ codec = NoCodec

\* No handler is suspended at await this.createPeerConnection(): that await
\* resumes in a microtask, so only events dispatched in the same task, which
\* are signaling events of one payload, are handled before the handler goes on.
Quiet == \A job \in suspended : job.stage # "createPeerConnection"

\* socket.on('connect'): the socket is connected and joins the room.
SocketConnect ==
    /\ socket = "connecting"
    /\ socket' = "connected"
    /\ UNCHANGED <<isInitiator, peerConnection, dataChannel, bufferedAmount, now, torndown, interrupted,
                   announce, staleAnnounce, created, stateChanges, channelConn, staleChannel>>
    /\ UNCHANGED <<signalVars, recvVars, sendVars, appVars, codec, room>>

\* The channel that leaves the field when another is assigned to it: it is
\* not closed and keeps the handlers of setupDataChannel.
Displaced == IF dataChannel # "null" THEN dataChannel ELSE staleChannel

\* The body of createPeerConnection: a new connection replaces the one in the
\* field, which is not closed and keeps its handlers; the initiator creates
\* its data channel on the new connection, the responder waits for the peer's.
NewPeerConnection ==
    /\ created < Len(Connections)
    /\ created' = created + 1
    /\ peerConnection' = "live"
    /\ connectionState' = "new"
    /\ dataChannel' = IF isInitiator THEN "connecting" ELSE dataChannel
    /\ bufferedAmount' = IF isInitiator THEN 0 ELSE bufferedAmount
    /\ channelConn' = IF isInitiator THEN created + 1 ELSE channelConn
    /\ staleChannel' = IF isInitiator THEN Displaced ELSE staleChannel
    /\ announce' = ~isInitiator
    /\ staleAnnounce' = (staleAnnounce \/ (peerConnection = "live" /\ announce))

\* createPeerConnection, as the user-joined handler (initiator) and the offer
\* handler (responder) call it.  The transfer specifications use this action
\* and leave the signaling variables alone; SpecSignal follows the handlers.
CreatePeerConnection ==
    /\ socket = "connected"
    /\ NewPeerConnection
    /\ UNCHANGED <<isInitiator, socket, now, torndown, interrupted, stateChanges>>
    /\ UNCHANGED <<targetSocketId, signals, suspended, emitted, applied>>
    /\ UNCHANGED <<recvVars, sendVars, appVars, codec, room>>

\* peerConnection.ondatachannel (responder): the channel the peer created is
\* announced, once per connection; its readyState is "open" when the event is
\* dispatched, and its open event, so onopen, follows in the same task.
OnDataChannel ==
    /\ Quiet
    /\ announce
    /\ peerConnection = "live"
    /\ dataChannel' = "open"
    /\ bufferedAmount' = 0
    /\ announce' = FALSE
    /\ channelConn' = created
    /\ staleChannel' = Displaced
    /\ stateChanges' = Append(stateChanges, "connected")
    /\ UNCHANGED <<isInitiator, socket, peerConnection, now, torndown, interrupted, staleAnnounce,
                   created>>
    /\ UNCHANGED <<signalVars, recvVars, sendVars, appVars, codec, room>>

\* ondatachannel of a connection that was replaced in the field: its handler
\* is still the closure set at line 147, and assigns the field all the same.
OnStaleDataChannel ==
    /\ Quiet
    /\ staleAnnounce
    /\ dataChannel' = "open"
    /\ bufferedAmount' = 0
    /\ staleAnnounce' = FALSE
    /\ channelConn' = created - 1
    /\ staleChannel' = Displaced
    /\ stateChanges' = Append(stateChanges, "connected")
    /\ UNCHANGED <<isInitiator, socket, peerConnection, now, torndown, interrupted, announce,
                   created>>
    /\ UNCHANGED <<signalVars, recvVars, sendVars, appVars, codec, room>>

\* dataChannel.onopen: the channel the initiator created becomes open.
ChannelOpen ==
    /\ Quiet
    /\ dataChannel = "connecting"
    /\ peerConnection = "live"
    /\ dataChannel' = "open"
    /\ stateChanges' = Append(stateChanges, "connected")
    /\ UNCHANGED <<isInitiator, socket, peerConnection, bufferedAmount, now, torndown, interrupted,
                   announce, staleAnnounce, created, channelConn, staleChannel>>
    /\ UNCHANGED <<signalVars, recvVars, sendVars, appVars, codec, room>>

\* onopen of the channel of a replaced connection: the closure set at line 159
\* reports 'connected', and the channel in the field is as it was.
StaleChannelOpen ==
    /\ Quiet
    /\ staleChannel = "connecting"
    /\ staleChannel' = "open"
    /\ stateChanges' = Append(stateChanges, "connected")
    /\ UNCHANGED <<isInitiator, socket, peerConnection, dataChannel, bufferedAmount, now, torndown,
                   interrupted, announce, staleAnnounce, created, channelConn>>
    /\ UNCHANGED <<signalVars, recvVars, sendVars, appVars, codec, room>>

\* The transport ends the channel: the peer closed it, the connection failed,
\* or the closing procedure that close() started has finished.  The channel
\* has no onclose handler.
ChannelClosed ==
    /\ Quiet
    /\ dataChannel \in {"connecting", "open", "closing"}
    /\ dataChannel' = "closed"
    /\ UNCHANGED <<isInitiator, socket, peerConnection, bufferedAmount, now, torndown, interrupted,
                   announce, staleAnnounce, created, stateChanges, channelConn, staleChannel>>
    /\ UNCHANGED <<signalVars, recvVars, sendVars, appVars, codec, room>>

\* The transport ends the channel of a replaced connection.
StaleChannelClosed ==
    /\ Quiet
    /\ staleChannel \in {"connecting", "open", "closing"}
    /\ staleChannel' = "closed"
    /\ UNCHANGED <<isInitiator, socket, peerConnection, dataChannel, bufferedAmount, now, torndown,
                   interrupted, announce, staleAnnounce, created, stateChanges, channelConn>>
    /\ UNCHANGED <<signalVars, recvVars, sendVars, appVars, codec, room>>

\* The body of disconnect(): dataChannel.close() on the channel in the field,
\* peerConnection.close() on the connection in the field, which closes the
\* channels of that connection at once, and socket.disconnect().  A channel
\* of another connection that close() was called on is closing; no field is
\* cleared, no map is emptied, a connection that was replaced earlier is not
\* closed, and onStateChange is not called (close() fires no
\* connectionstatechange event).
Teardown ==
    /\ Quiet
    /\ ~torndown
    /\ torndown' = TRUE
    /\ interrupted' = {c \in Calls : pc[c] \in {"wait", "reading"}}
    /\ dataChannel' = IF dataChannel \in {"null", "closed"} THEN dataChannel
                      ELSE IF channelConn = created THEN "closed"
                      ELSE "closing"
    /\ staleChannel' = IF staleChannel \in {"connecting", "open", "closing"}
                          /\ channelConn # created
                       THEN "closed" ELSE staleChannel
    /\ peerConnection' = IF peerConnection = "null" THEN "null" ELSE "closed"
    /\ connectionState' = IF peerConnection = "null" THEN connectionState ELSE "closed"
    /\ socket' = "disconnected"
    /\ announce' = FALSE
    /\ UNCHANGED <<isInitiator, bufferedAmount, now, staleAnnounce, created, stateChanges, channelConn>>
    /\ UNCHANGED <<targetSocketId, signals, suspended, emitted, applied>>
    /\ UNCHANGED <<recvVars, sendVars, codec, room>>

\* disconnect()
Disconnect ==
    /\ Teardown
    /\ UNCHANGED appVars

\* Date.now() advances.
Tick ==
    /\ now < MaxTime
    /\ now' = now + 1
    /\ UNCHANGED <<isInitiator, socket, peerConnection, dataChannel, bufferedAmount, torndown, interrupted,
                   announce, staleAnnounce, created, stateChanges, channelConn, staleChannel>>
    /\ UNCHANGED <<signalVars, recvVars, sendVars, appVars, codec, room>>

\* The channel's outbound buffer fills or drains.
BufferChange(level) ==
    /\ dataChannel \in {"connecting", "open", "closing"}
    /\ level # bufferedAmount
    /\ bufferedAmount' = level
    /\ UNCHANGED <<isInitiator, socket, peerConnection, dataChannel, now, torndown, interrupted,
                   announce, staleAnnounce, created, stateChanges, channelConn, staleChannel>>
    /\ UNCHANGED <<signalVars, recvVars, sendVars, appVars, codec, room>>

\* ------------------------------------------------------------- signaling

RECURSIVE SumOf(_, _)
\* The sum of the counts bag holds for the keys in ks.
SumOf(bag, ks) ==
    IF ks = {} THEN 0
    ELSE LET k == CHOOSE x \in ks : TRUE
         IN  bag[k] + SumOf(bag, ks \ {k})

\* The relay delivers a message of the given type from the given handle: it
\* arrives on the connected socket.
Delivered(type, from) ==
    /\ socket = "connected"
    /\ SumOf(signals, DOMAIN signals) < MaxSignals
    /\ from \in Peers
    /\ signals' = MapSet(signals, type, (IF type \in DOMAIN signals THEN signals[type] ELSE 0) + 1)

\* The connection in the field has a remote description: an offer or an
\* answer was applied to it.
HasRemoteDescription ==
    \E k \in 1..Len(applied) :
        applied[k].conn = created /\ applied[k].what \in {"offer", "answer"}

\* What is recorded of a description or candidate handed to the connection
\* in the field.
Applied(what, from) ==
    [what |-> what, from |-> from, target |-> targetSocketId, conn |-> created]

\* An initiator that handles an offer like a responder.
AcceptsOffer_Always == TRUE

\* if (!this.isInitiator), the guard of the offer handler
AcceptsOffer == ~isInitiator

\* The connection numbered x has been closed: disconnect() closes the one the
\* field holds and no other.
IsClosed(x) == x = created /\ peerConnection = "closed"

\* A description of the given kind was handed to the connection numbered x.
HasDescription(x, what) ==
    \E k \in 1..Len(applied) : applied[k].conn = x /\ applied[k].what = what

\* The signalingState of a connection after a description of the given kind
\* was set on it.
SignalingStep(state, what) ==
    CASE what = "local-offer"  -> "have-local-offer"
      [] what = "offer"        -> "have-remote-offer"
      [] what = "answer"       -> "stable"
      [] what = "local-answer" -> "stable"
      [] OTHER                 -> state

\* The signalingState of the connection numbered x after the first k of the
\* descriptions and candidates handed to the connections.
RECURSIVE SignalingAfter(_, _)
SignalingAfter(x, k) ==
    IF k = 0 THEN "stable"
    ELSE IF applied[k].conn = x
    THEN SignalingStep(SignalingAfter(x, k - 1), applied[k].what)
    ELSE SignalingAfter(x, k - 1)

\* peerConnection.signalingState of the connection numbered x
SignalingState(x) == SignalingAfter(x, Len(applied))

\* The caller whose offer the connection numbered x holds: the one applied to
\* it last.
OfferedBy(x) ==
    LET offers == {k \in 1..Len(applied) : applied[k].conn = x /\ applied[k].what = "offer"}
    IN  applied[CHOOSE k \in offers : \A other \in offers : other <= k].from

\* A handler suspended at an await: the event it handles, the peer the event
\* named, the connection it created, the call it awaits and the connection
\* that call was made on.
Job(handler, peer, conn, stage, on) ==
    [handler |-> handler, peer |-> peer, conn |-> conn, stage |-> stage, on |-> on]

\* socket.on('user-joined'), up to its first await: the initiator records the
\* peer, creates a connection and is suspended at
\* await this.createPeerConnection(), before createOffer is called.
UserJoined(socketId) ==
    /\ Delivered("user-joined", socketId)
    /\ IF isInitiator
       THEN /\ NewPeerConnection
            /\ targetSocketId' = socketId
            /\ suspended' = suspended \cup
                   {Job("user-joined", socketId, created + 1, "createPeerConnection", created + 1)}
       ELSE UNCHANGED <<peerConnection, connectionState, dataChannel, bufferedAmount, announce,
                        staleAnnounce, created, channelConn, staleChannel, targetSocketId,
                        suspended>>
    /\ UNCHANGED <<isInitiator, socket, now, torndown, interrupted, stateChanges>>
    /\ UNCHANGED <<emitted, applied>>
    /\ UNCHANGED <<recvVars, sendVars, appVars, codec, room>>

\* The offers that the handlers resumed from await this.createPeerConnection()
\* hand to setRemoteDescription of the connection in the field, in the order
\* the handlers started.
RECURSIVE OffersOf(_)
OffersOf(jobs) ==
    IF jobs = {} THEN <<>>
    ELSE LET first == CHOOSE job \in jobs : \A other \in jobs : job.conn <= other.conn
         IN  <<Applied("offer", first.peer)>> \o OffersOf(jobs \ {first})

\* The microtasks that end await this.createPeerConnection(): every handler
\* suspended there goes on, in the order the handlers started, with the
\* connection the field holds by now.  A user-joined handler calls createOffer,
\* which passes its guard and is suspended in peerConnection.createOffer(); an
\* offer handler hands its offer to setRemoteDescription and is suspended
\* there.
PeerConnectionCreated ==
    /\ ~Quiet
    /\ LET ready == {job \in suspended : job.stage = "createPeerConnection"}
       IN  /\ suspended' = (suspended \ ready) \cup
                  {Job(job.handler, job.peer, job.conn,
                       IF job.handler = "user-joined" THEN "createOffer"
                       ELSE "setRemoteDescription", created) : job \in ready}
           /\ applied' = applied \o OffersOf({job \in ready : job.handler = "offer"})
    /\ UNCHANGED sessionVars
    /\ UNCHANGED <<targetSocketId, connectionState, signals, emitted>>
    /\ UNCHANGED <<recvVars, sendVars, appVars, codec, room>>

\* Another suspended handler awaits the same call on the same connection: the
\* connection compares a local description with the one it created last.
HasRival(job) ==
    \E other \in suspended \ {job} : other.stage = job.stage /\ other.on = job.on

\* createOffer, from the end of await peerConnection.createOffer() to the next
\* await: the offer is handed to setLocalDescription of the connection the
\* field holds by then, which rejects an offer another connection created and,
\* where a rival offer was asked for, may reject it as not the last one
\* created.  The promise of a connection closed meanwhile is not settled, and
\* the handler is over.
OfferCreated(job, accepted) ==
    /\ Quiet
    /\ job \in suspended
    /\ job.handler = "user-joined"
    /\ job.stage = "createOffer"
    /\ ~accepted => HasRival(job)
    /\ IF accepted /\ ~IsClosed(job.on) /\ created = job.on
       THEN /\ applied' = Append(applied, Applied("local-offer", "local"))
            /\ suspended' = (suspended \ {job}) \cup
                   {Job(job.handler, job.peer, job.conn, "setLocalDescription", created)}
       ELSE /\ applied' = applied
            /\ suspended' = suspended \ {job}
    /\ UNCHANGED sessionVars
    /\ UNCHANGED <<targetSocketId, connectionState, signals, emitted>>
    /\ UNCHANGED <<recvVars, sendVars, appVars, codec, room>>

\* createOffer, from the end of await setLocalDescription(offer): the offer is
\* emitted to the peer the field names by then.
OfferReady(job) ==
    /\ Quiet
    /\ job \in suspended
    /\ job.handler = "user-joined"
    /\ job.stage = "setLocalDescription"
    /\ suspended' = suspended \ {job}
    /\ emitted' = IF ~IsClosed(job.on)
                  THEN Append(emitted, [type |-> "offer", target |-> targetSocketId,
                                        for |-> job.peer])
                  ELSE emitted
    /\ UNCHANGED sessionVars
    /\ UNCHANGED <<targetSocketId, connectionState, signals, applied>>
    /\ UNCHANGED <<recvVars, sendVars, appVars, codec, room>>

\* socket.on('offer'), up to its first await: the responder records the
\* caller, creates a connection and is suspended at
\* await this.createPeerConnection(), before setRemoteDescription is called.
Offer(caller) ==
    /\ Delivered("offer", caller)
    /\ IF AcceptsOffer
       THEN /\ NewPeerConnection
            /\ targetSocketId' = caller
            /\ suspended' = suspended \cup
                   {Job("offer", caller, created + 1, "createPeerConnection", created + 1)}
       ELSE UNCHANGED <<peerConnection, connectionState, dataChannel, bufferedAmount, announce,
                        staleAnnounce, created, channelConn, staleChannel, targetSocketId,
                        suspended>>
    /\ UNCHANGED <<isInitiator, socket, now, torndown, interrupted, stateChanges>>
    /\ UNCHANGED <<emitted, applied>>
    /\ UNCHANGED <<recvVars, sendVars, appVars, codec, room>>

\* The offer handler from the end of await setRemoteDescription to the first
\* await of createAnswer: createAnswer passes its guard and calls
\* peerConnection.createAnswer() on the connection the field holds by then,
\* which rejects when that connection is closed or has its answer already.
RemoteDescriptionSet(job) ==
    /\ Quiet
    /\ job \in suspended
    /\ job.handler = "offer"
    /\ job.stage = "setRemoteDescription"
    /\ suspended' =
          IF /\ ~IsClosed(job.on)
             /\ ~IsClosed(created)
             /\ ~HasDescription(created, "local-answer")
          THEN (suspended \ {job}) \cup
                   {Job(job.handler, job.peer, job.conn, "createAnswer", created)}
          ELSE suspended \ {job}
    /\ UNCHANGED sessionVars
    /\ UNCHANGED <<targetSocketId, connectionState, signals, emitted, applied>>
    /\ UNCHANGED <<recvVars, sendVars, appVars, codec, room>>

\* createAnswer, from the end of await peerConnection.createAnswer() to the
\* next await: the answer is handed to setLocalDescription of the connection
\* the field holds by then.  It is rejected by another connection than the one
\* that created it, by a connection that has its answer already, and, where a
\* rival answer was asked for, it may be rejected as not the last one created.
AnswerCreated(job, accepted) ==
    /\ Quiet
    /\ job \in suspended
    /\ job.handler = "offer"
    /\ job.stage = "createAnswer"
    /\ ~accepted => HasRival(job)
    /\ IF /\ accepted
          /\ ~IsClosed(job.on)
          /\ created = job.on
          /\ ~HasDescription(created, "local-answer")
       THEN /\ applied' = Append(applied, Applied("local-answer", "local"))
            /\ suspended' = (suspended \ {job}) \cup
                   {Job(job.handler, job.peer, job.conn, "setLocalDescription", created)}
       ELSE /\ applied' = applied
            /\ suspended' = suspended \ {job}
    /\ UNCHANGED sessionVars
    /\ UNCHANGED <<targetSocketId, connectionState, signals, emitted>>
    /\ UNCHANGED <<recvVars, sendVars, appVars, codec, room>>

\* createAnswer, from the end of await setLocalDescription(answer): the answer,
\* which answers the offer applied to the connection that created it, is
\* emitted to the peer the field names by then.
AnswerReady(job) ==
    /\ Quiet
    /\ job \in suspended
    /\ job.handler = "offer"
    /\ job.stage = "setLocalDescription"
    /\ suspended' = suspended \ {job}
    /\ emitted' = IF ~IsClosed(job.on)
                  THEN Append(emitted, [type |-> "answer", target |-> targetSocketId,
                                        for |-> OfferedBy(job.on)])
                  ELSE emitted
    /\ UNCHANGED sessionVars
    /\ UNCHANGED <<targetSocketId, connectionState, signals, applied>>
    /\ UNCHANGED <<recvVars, sendVars, appVars, codec, room>>

\* socket.on('answer'): an initiator with a connection applies the answer to
\* it; a closed connection refuses it, and so does one that is not in
\* have-local-offer: it has no local offer yet, or has its answer already.
Answer(answerer) ==
    /\ Delivered("answer", answerer)
    /\ applied' = IF isInitiator /\ peerConnection = "live"
                     /\ SignalingState(created) = "have-local-offer"
                  THEN Append(applied, Applied("answer", answerer))
                  ELSE applied
    /\ UNCHANGED sessionVars
    /\ UNCHANGED <<targetSocketId, connectionState, suspended, emitted>>
    /\ UNCHANGED <<recvVars, sendVars, appVars, codec, room>>

\* socket.on('ice-candidate'): a session with a connection hands the candidate
\* to it, whoever sent it; addIceCandidate rejects, and the handler catches,
\* on a connection that is closed or has no remote description yet.
IceCandidate(sender) ==
    /\ Delivered("ice-candidate", sender)
    /\ applied' = IF peerConnection = "live" /\ HasRemoteDescription
                  THEN Append(applied, Applied("candidate", sender))
                  ELSE applied
    /\ UNCHANGED sessionVars
    /\ UNCHANGED <<targetSocketId, connectionState, suspended, emitted>>
    /\ UNCHANGED <<recvVars, sendVars, appVars, codec, room>>

\* What onconnectionstatechange reports for a connectionState, as a sequence
\* of onStateChange arguments.
Reported(state) ==
    IF state = "connected" THEN <<"connected">>
    ELSE IF state \in {"disconnected", "failed"} THEN <<"disconnected">>
    ELSE <<>>

\* peerConnection.onconnectionstatechange: the transport moved the connection
\* in the field to another connectionState.
ConnectionStateChange(state) ==
    /\ Quiet
    /\ peerConnection = "live"
    /\ MayFollow(connectionState, state)
    /\ Len(stateChanges) < MaxReports
    /\ connectionState' = state
    /\ stateChanges' = stateChanges \o Reported(state)
    /\ UNCHANGED <<isInitiator, socket, peerConnection, dataChannel, bufferedAmount, now, torndown,
                   interrupted, announce, staleAnnounce, created, channelConn, staleChannel>>
    /\ UNCHANGED <<targetSocketId, signals, suspended, emitted, applied>>
    /\ UNCHANGED <<recvVars, sendVars, appVars, codec, room>>

\* onconnectionstatechange of a connection that was replaced in the field,
\* which is never closed: its handler is the closure set at line 131, which
\* reads the connectionState of the connection the field holds and reports
\* that.
StaleConnectionStateChange ==
    /\ Quiet
    /\ created > 1
    /\ Len(stateChanges) <= MaxReports
    /\ stateChanges' = stateChanges \o Reported(connectionState)
    /\ UNCHANGED <<isInitiator, socket, peerConnection, dataChannel, bufferedAmount, now, torndown,
                   interrupted, announce, staleAnnounce, created, channelConn, staleChannel>>
    /\ UNCHANGED signalVars
    /\ UNCHANGED <<recvVars, sendVars, appVars, codec, room>>

NextSignal ==
    \/ SocketConnect
    \/ \E p \in Peers : UserJoined(p)
    \/ \E p \in Peers : Offer(p)
    \/ \E p \in Peers : Answer(p)
    \/ \E p \in Peers : IceCandidate(p)
    \/ PeerConnectionCreated
    \/ \E job \in suspended : \E accepted \in BOOLEAN : OfferCreated(job, accepted)
    \/ \E job \in suspended : OfferReady(job)
    \/ \E job \in suspended : RemoteDescriptionSet(job)
    \/ \E job \in suspended : \E accepted \in BOOLEAN : AnswerCreated(job, accepted)
    \/ \E job \in suspended : AnswerReady(job)
    \/ \E state \in ConnectionStates : ConnectionStateChange(state)
    \/ StaleConnectionStateChange
    \/ ChannelOpen
    \/ OnDataChannel
    \/ OnStaleDataChannel
    \/ StaleChannelOpen
    \/ Disconnect

SpecSignal == Init /\ [][NextSignal]_vars

\* ----------------------------------------------------------- the receiver

\* The channel message the sender builds from (fileId, chunkIndex,
\* totalChunks, data): the header followed by the payload.
EncodeFrame(fr) == EncodeHeader(fr.fileId, fr.chunkIndex, fr.totalChunks) \o fr.data

\* chunks.length: one more than the largest populated index.
ArrayLength(chunks) ==
    IF DOMAIN chunks = {} THEN 0
    ELSE (CHOOSE i \in DOMAIN chunks : \A j \in DOMAIN chunks : j <= i) + 1

\* A receiver that appends, chunks.push(data), instead of storing at the index.
StoreChunk_Push(chunks, index, data) == MapSet(chunks, ArrayLength(chunks), data)

\* chunks[chunkIndex] = data, on a sparse array: a function from the populated
\* indexes to their payloads.
StoreChunk(chunks, index, data) == MapSet(chunks, index, data)

\* chunks.filter(Boolean).length: filter skips the holes, and every
\* ArrayBuffer, an empty one too, is truthy.
PopulatedCount(chunks) == Cardinality(DOMAIN chunks)

\* chunks.filter(Boolean).length === totalChunks
IsComplete(chunks, totalChunks) == PopulatedCount(chunks) = totalChunks

RECURSIVE BlobUpTo(_, _)
BlobUpTo(chunks, n) ==
    IF n = 0 THEN <<>>
    ELSE BlobUpTo(chunks, n - 1)
         \o (IF (n - 1) \in DOMAIN chunks THEN chunks[n - 1] ELSE UndefinedBytes)

\* new Blob(chunks): the parts in index order; a hole converts to the string
\* "undefined".
BlobOf(chunks) == BlobUpTo(chunks, ArrayLength(chunks))

\* this.receivedBytes.get(fileId)! + data.byteLength
CurrentBytes(bytesBefore, data) == bytesBefore + Len(data)

\* (Date.now() - start) / 1000
Elapsed(start, t) == JsFrac(t - start, MsPerSec)

\* const speed = bytes / elapsed
Speed(bytes, elapsed) == JsDiv(JsInt(bytes), elapsed)

\* const totalBytes = currentBytes * (totalChunks / (chunkIndex + 1))
EstimateTotal(currentBytes, index, totalChunks) ==
    JsMul(JsInt(currentBytes), JsDiv(JsInt(totalChunks), JsInt(index + 1)))

\* const eta = (totalBytes - currentBytes) / speed
Eta(totalBytes, bytes, speed) == JsDiv(JsSub(totalBytes, JsInt(bytes)), speed)

\* A cleanup that leaves the start time of the completed file behind.
DeleteStartTime_Never(times, fileId) == times

\* this.startTime.delete(fileId)
DeleteStartTime(times, fileId) == MapDelete(times, fileId)

\* handleChunk(buffer), from the parsed header on.  The header is bound, so
\* that it is parsed once.
Reassemble(buffer) ==
    \E h \in {ParseHeader(buffer)} :
    LET fileId       == h.fileId
        has          == fileId \in DOMAIN receivedChunks
        chunks       == StoreChunk(IF has THEN receivedChunks[fileId] ELSE EmptyMap,
                                   h.chunkIndex, h.data)
        currentBytes == CurrentBytes(IF has THEN receivedBytes[fileId] ELSE 0, h.data)
        start        == IF has THEN startTime[fileId] ELSE now
        elapsed      == Elapsed(start, now)
        speed        == Speed(currentBytes, elapsed)
        totalBytes   == EstimateTotal(currentBytes, h.chunkIndex, h.totalChunks)
        eta          == Eta(totalBytes, currentBytes, speed)
    IN  /\ rxProgress' = <<[fileId |-> fileId, bytesTransferred |-> currentBytes,
                            totalBytes |-> totalBytes, speed |-> speed, eta |-> eta]>>
        /\ IF IsComplete(chunks, h.totalChunks)
           THEN /\ completed' = Append(completed, [fileId |-> fileId, blob |-> BlobOf(chunks)])
                /\ receivedChunks' = MapDelete(receivedChunks, fileId)
                /\ receivedBytes' = MapDelete(receivedBytes, fileId)
                /\ startTime' = DeleteStartTime(startTime, fileId)
           ELSE /\ completed' = completed
                /\ receivedChunks' = MapSet(receivedChunks, fileId, chunks)
                /\ receivedBytes' = MapSet(receivedBytes, fileId, currentBytes)
                /\ startTime' = MapSet(startTime, fileId, start)

\* A handleChunk without the bounds check of the header view: the missing
\* bytes of a short buffer read as zero.
HandleChunk_ZeroFilled(buffer) ==
    Reassemble(buffer \o [i \in 1..(IF Len(buffer) < HeaderLen THEN HeaderLen - Len(buffer) ELSE 0)
                              |-> 0])

\* handleChunk(buffer).  new DataView(buffer, 0, 44) throws a RangeError on a
\* buffer shorter than 44 bytes, before anything is read or written; the
\* exception leaves the onmessage handler.
HandleChunk(buffer) ==
    IF Len(buffer) < HeaderLen
    THEN /\ rxProgress' = <<>>
         /\ UNCHANGED <<receivedChunks, receivedBytes, startTime, completed>>
    ELSE Reassemble(buffer)

\* A channel that setupDataChannel was called on is open: the one in the field
\* or the one displaced from it, whose onmessage is the same closure.
Receiving == dataChannel = "open" \/ staleChannel = "open"

\* dataChannel.onmessage with a binary message: the frame the peer built from
\* fr arrives on an open channel and is handed to handleChunk.
OnMessage(fr) ==
    /\ Receiving
    /\ delivered < MaxFrames
    /\ HandleChunk(EncodeFrame(fr))
    /\ delivered' = delivered + 1
    /\ arrived' = MapSet(arrived, fr, (IF fr \in DOMAIN arrived THEN arrived[fr] ELSE 0) + 1)
    /\ malformed' = malformed
    /\ UNCHANGED <<sessionVars, signalVars, sendVars, appVars, codec, room>>

\* dataChannel.onmessage with a binary message shorter than a header.
OnShortMessage(buffer) ==
    /\ Receiving
    /\ delivered < MaxFrames
    /\ Len(buffer) < HeaderLen
    /\ HandleChunk(buffer)
    /\ delivered' = delivered + 1
    /\ malformed' = malformed + 1
    /\ arrived' = arrived
    /\ UNCHANGED <<sessionVars, signalVars, sendVars, appVars, codec, room>>

NextRecv ==
    \/ SocketConnect
    \/ CreatePeerConnection
    \/ OnDataChannel
    \/ OnStaleDataChannel
    \/ ChannelOpen
    \/ StaleChannelOpen
    \/ Tick
    \/ \E fr \in FramesOf(FileIdA) : OnMessage(fr)
    \/ \E buffer \in ShortBuffers : OnShortMessage(buffer)

SpecRecv == Init /\ [][NextRecv]_vars

\* The frames of two files in flight together: A and B, each as a file of one
\* chunk or of two.
InterleavedFrames ==
    {fr \in FramesOf(FileIdA) \cup FramesOf(FileIdB) :
        fr.totalChunks \in {1, 2} /\ fr.chunkIndex < fr.totalChunks}

\* The receiver of several files, with disconnect(): the frames of the files
\* arrive in any order on the channels that are open.
NextFiles ==
    \/ SocketConnect
    \/ CreatePeerConnection
    \/ OnDataChannel
    \/ OnStaleDataChannel
    \/ ChannelOpen
    \/ StaleChannelOpen
    \/ Tick
    \/ \E fr \in InterleavedFrames : OnMessage(fr)
    \/ Disconnect

SpecFiles == Init /\ [][NextFiles]_vars

\* ------------------------------------------------------------- the sender

Min(a, b) == IF a < b THEN a ELSE b

\* const totalChunks = Math.ceil(file.size / chunkSize)
TotalChunksOf(size) == (size + ChunkSize - 1) \div ChunkSize

\* file.slice(offset, offset + chunkSize).size: the slice is clamped to the file.
SliceLen(size, off) == IF off >= size THEN 0 ELSE Min(ChunkSize, size - off)

\* A sender that never waits for the buffer to drain.
ExceedsMark_Never(depth) == FALSE

\* this.dataChannel.bufferedAmount > 1024 * 1024 * 4
ExceedsMark(depth) == depth > HighWaterMark

\* Where an entry into readNextChunk, with the channel's buffer at depth,
\* leaves the call: rejected without a channel, waiting on a timer above the
\* mark, else reading the next slice.
ReadNextChunk(depth) ==
    IF dataChannel = "null" THEN "rejected"
    ELSE IF ExceedsMark(depth) THEN "wait"
    ELSE "reading"

\* The sample after the slice that moved the offset to off.
SliceSample(c, off) ==
    LET speed == Speed(off, Elapsed(callStart[c], now))
    IN  [call |-> c, fileId |-> callFile[c].fileId, bytesTransferred |-> off,
         totalBytes |-> callFile[c].size, speed |-> speed,
         eta |-> Eta(JsInt(callFile[c].size), off, speed)]

\* A sender that resolves without its completion sample.
CompletionSamples_None(c) == <<>>

\* "Mark as complete for sender": the sample emitted once offset >= file.size.
CompletionSamples(c) ==
    <<[call |-> c, fileId |-> callFile[c].fileId, bytesTransferred |-> callFile[c].size,
       totalBytes |-> callFile[c].size, speed |-> JsInt(0), eta |-> JsInt(0)]>>

\* sendFile(file, fileId), up to its first suspension: it returns at once
\* unless the channel is open, else it enters readNextChunk.
SendFile(c, fileId, size) ==
    /\ pc[c] = "idle"
    /\ IF dataChannel # "open"
       THEN /\ pc' = [pc EXCEPT ![c] = "returned"]
            /\ UNCHANGED <<callFile, callStart, observed>>
       ELSE /\ callFile' = [callFile EXCEPT ![c] = [fileId |-> fileId, size |-> size]]
            /\ callStart' = [callStart EXCEPT ![c] = now]
            /\ observed' = [observed EXCEPT ![c] = bufferedAmount]
            /\ pc' = [pc EXCEPT ![c] = ReadNextChunk(bufferedAmount)]
    /\ UNCHANGED <<offset, chunkIndex, sent, txProgress>>
    /\ UNCHANGED <<sessionVars, signalVars, recvVars, appVars, codec, room>>

\* The setTimeout callback of the flow-control branch: readNextChunk again.
TimerFires(c) ==
    /\ pc[c] = "wait"
    /\ observed' = [observed EXCEPT ![c] = bufferedAmount]
    /\ pc' = [pc EXCEPT ![c] = ReadNextChunk(bufferedAmount)]
    /\ UNCHANGED <<callFile, offset, chunkIndex, callStart, sent, txProgress>>
    /\ UNCHANGED <<sessionVars, signalVars, recvVars, appVars, codec, room>>

\* The startTransfer invocations that await call c (at most one).
AwaitedBy(c) ==
    {t \in Tasks : task[t].status = "running" /\ TaskCalls[t][task[t].i] = c}

\* The promise of call c settles, with the channel's buffer at depth.  A
\* startTransfer that awaits it goes on before any other event is handled: on
\* a rejection the exception leaves its loop; else the loop calls sendFile
\* for the next file of its queue (the channel is open: it has just accepted a
\* frame), or ends.
Settles(c, outcome, depth) ==
    IF AwaitedBy(c) = {}
    THEN /\ pc' = [pc EXCEPT ![c] = outcome]
         /\ UNCHANGED <<callFile, callStart, observed, task>>
    ELSE LET t     == CHOOSE x \in AwaitedBy(c) : TRUE
             i     == task[t].i
             files == task[t].files
         IN  IF outcome = "rejected"
             THEN /\ pc' = [pc EXCEPT ![c] = outcome]
                  /\ task' = [task EXCEPT ![t].status = "failed"]
                  /\ UNCHANGED <<callFile, callStart, observed>>
             ELSE IF i = Len(files)
             THEN /\ pc' = [pc EXCEPT ![c] = outcome]
                  /\ task' = [task EXCEPT ![t].status = "done"]
                  /\ UNCHANGED <<callFile, callStart, observed>>
             ELSE LET n == TaskCalls[t][i + 1]
                  IN  /\ pc' = [pc EXCEPT ![c] = outcome, ![n] = ReadNextChunk(depth)]
                      /\ callFile' = [callFile EXCEPT ![n] = files[i + 1]]
                      /\ callStart' = [callStart EXCEPT ![n] = now]
                      /\ observed' = [observed EXCEPT ![n] = depth]
                      /\ task' = [task EXCEPT ![t].i = i + 1]

\* The readyState of the channel that call c sends on: the channel in the
\* field of the manager the call was made on.  A manager that was replaced had
\* been torn down, which closed the channel in its field.
ChannelOf(c) == IF c \in retired.calls THEN "closed" ELSE dataChannel

\* reader.onload: the frame is built, which throws a RangeError where the
\* fileId does not fit the header, and handed to the channel, whose send()
\* throws an InvalidStateError unless its readyState is "open" (either
\* exception leaves the handler, and the promise is never settled); then the
\* counters move, a sample is emitted, and the loop goes on or completes.
ReaderLoad(c) ==
    /\ pc[c] = "reading"
    /\ IF ChannelOf(c) = "null"
       THEN /\ Settles(c, "rejected", bufferedAmount)
            /\ UNCHANGED <<offset, chunkIndex, sent, txProgress, bufferedAmount>>
       ELSE IF ~Fits(callFile[c].fileId) \/ ChannelOf(c) # "open"
       THEN /\ pc' = [pc EXCEPT ![c] = "hung"]
            /\ UNCHANGED <<offset, chunkIndex, observed, sent, txProgress, bufferedAmount>>
            /\ UNCHANGED <<callFile, callStart, task>>
       ELSE
       LET size  == callFile[c].size
           len   == SliceLen(size, offset[c])
           frame == [call |-> c,
                     header |-> EncodeHeader(callFile[c].fileId, chunkIndex[c], TotalChunksOf(size)),
                     len |-> len]
           off   == offset[c] + ChunkSize
           depth == bufferedAmount + HeaderLen + len
       IN  /\ sent' = Append(sent, frame)
           /\ bufferedAmount' = depth
           /\ offset' = [offset EXCEPT ![c] = off]
           /\ chunkIndex' = [chunkIndex EXCEPT ![c] = chunkIndex[c] + 1]
           /\ IF off < size
              THEN /\ txProgress' = Append(txProgress, SliceSample(c, off))
                   /\ observed' = [observed EXCEPT ![c] = depth]
                   /\ pc' = [pc EXCEPT ![c] = ReadNextChunk(depth)]
                   /\ UNCHANGED <<callFile, callStart, task>>
              ELSE /\ txProgress' = Append(txProgress, SliceSample(c, off)) \o CompletionSamples(c)
                   /\ Settles(c, "resolved", depth)
    /\ UNCHANGED <<isInitiator, socket, peerConnection, dataChannel, now, torndown, interrupted,
                   announce, staleAnnounce, created, stateChanges, channelConn, staleChannel>>
    /\ UNCHANGED <<signalVars, recvVars, filesToTransfer, resetAt, resetTo, view, retired, codec, room>>

\* reader.onerror = reject: the slice cannot be read.
ReaderError(c) ==
    /\ pc[c] = "reading"
    /\ Settles(c, "rejected", bufferedAmount)
    /\ UNCHANGED <<offset, chunkIndex, sent, txProgress>>
    /\ UNCHANGED <<sessionVars, signalVars, recvVars, filesToTransfer, resetAt, resetTo, view, retired,
                   codec, room>>

NextSend ==
    \/ SocketConnect
    \/ CreatePeerConnection
    \/ OnDataChannel
    \/ OnStaleDataChannel
    \/ ChannelOpen
    \/ StaleChannelOpen
    \/ ChannelClosed
    \/ StaleChannelClosed
    \/ Disconnect
    \/ Tick
    \/ \E level \in BufferLevels : BufferChange(level)
    \/ \E size \in FileSizes : SendFile("c1", FileIdA, size)
    \/ TimerFires("c1")
    \/ ReaderLoad("c1")
    \/ ReaderError("c1")

SpecSend == Init /\ [][NextSend]_vars

\* One sendFile call under fair scheduling: the channel opens, fills, drains
\* and closes, the session is torn down, and the call's timer and reader
\* callbacks are dispatched.
NextSendFair ==
    \/ SocketConnect
    \/ CreatePeerConnection
    \/ OnDataChannel
    \/ OnStaleDataChannel
    \/ ChannelOpen
    \/ StaleChannelOpen
    \/ ChannelClosed
    \/ StaleChannelClosed
    \/ Disconnect
    \/ \E level \in BufferLevels : BufferChange(level)
    \/ \E size \in BatchSizes : SendFile("c1", FileIdA, size)
    \/ TimerFires("c1")
    \/ ReaderLoad("c1")
    \/ ReaderError("c1")

\* The event loop dispatches a timer that is due and a reader callback that is
\* pending, and the transport completes a closing procedure it has begun.  A
\* buffer that drains again and again is at some time found drained by the
\* timer.
Fairness ==
    /\ WF_vars(TimerFires("c1"))
    /\ SF_vars(TimerFires("c1") /\ pc'["c1"] # "wait")
    /\ WF_vars(ReaderLoad("c1") \/ ReaderError("c1"))
    /\ WF_vars(ChannelClosed /\ dataChannel = "closing")

SpecSendFair == Init /\ [][NextSendFair]_vars /\ Fairness

\* -------------------------------------------------------- the application

\* The connection state the application shows: the last onStateChange
\* argument of the manager, unless the state was set otherwise since: by
\* useState('disconnected') at the first render, by cancelSession, or by an
\* onStateChange call of a manager that was replaced.
AppConnectionState ==
    IF Len(stateChanges) = resetAt THEN resetTo ELSE stateChanges[Len(stateChanges)]

\* The view the application shows: what its handlers last set, or 'transfer'
\* when a responder's onStateChange was called with 'connected' since
\* (setupManager, lines 59-64).
AppView ==
    IF ~isInitiator /\ \E k \in (view.at + 1)..Len(stateChanges) : stateChanges[k] = "connected"
    THEN "transfer" ELSE view.set

\* handleFileSelect and onDrop of the send view: the selected files join the
\* queue, each under a fresh id.  At most one selection is followed.
SelectFiles(files) ==
    /\ AppView = "send"
    /\ filesToTransfer = <<>>
    /\ filesToTransfer' = filesToTransfer \o files
    /\ UNCHANGED <<task, resetAt, resetTo, view, retired>>
    /\ UNCHANGED <<sessionVars, signalVars, recvVars, sendVars, codec, room>>

\* The name and the type of a selected file: the File objects are named
\* after the id they are queued under, with the extension ".bin", and have
\* no type.
NameOf(file) == file.fileId \o <<46, 98, 105, 110>>

TypeOf(file) == <<>>

\* String(n).length for an integer n >= 0
RECURSIVE Digits(_)
Digits(n) == IF n < 10 THEN 1 ELSE 1 + Digits(n \div 10)

\* The length of {"id":"..","name":"..","size":n,"type":".."}
EntryLen(file) ==
    37 + Len(file.fileId) + Len(NameOf(file)) + Digits(file.size) + Len(TypeOf(file))

RECURSIVE EntriesLen(_)
EntriesLen(files) ==
    IF files = <<>> THEN 0
    ELSE EntryLen(Head(files)) + (IF Len(files) > 1 THEN 1 ELSE 0) + EntriesLen(Tail(files))

\* The length of JSON.stringify({ type: 'metadata', files }), which send()
\* adds to bufferedAmount: {"type":"metadata","files":[ .. ]} around the
\* entries and the commas between them.
MetadataLen(files) == 30 + EntriesLen(files)

\* The channel message sendMetadata sends.
MetadataMessage(files) == [call |-> "metadata", header |-> <<>>, len |-> 0, files |-> files]

\* cancelSession, the caller of disconnect(), from the logo of the header in
\* any view or from the cancel button of a view: the session is torn down,
\* the queue is emptied, the shown state is set to 'disconnected' and the home
\* view is shown.  A startTransfer that is running keeps the manager and goes
\* on.  Invoked again, when webrtc is null, it sets the application's state
\* only.
CancelSession ==
    /\ \/ Teardown
       \/ /\ torndown
          /\ UNCHANGED <<sessionVars, signalVars, recvVars, sendVars, codec, room>>
    /\ filesToTransfer' = <<>>
    /\ resetAt' = Len(stateChanges)
    /\ resetTo' = "disconnected"
    /\ view' = [set |-> "home", at |-> Len(stateChanges)]
    /\ UNCHANGED <<task, retired>>

\* handleStartReceive: the receive view is shown.
HandleStartReceive ==
    /\ AppView = "home"
    /\ view' = [set |-> "receive", at |-> Len(stateChanges)]
    /\ UNCHANGED <<filesToTransfer, task, resetAt, resetTo, retired>>
    /\ UNCHANGED <<sessionVars, signalVars, recvVars, sendVars, codec, room>>

\* new WebRTCManager(id, initiator), setupManager and setWebrtc, as
\* handleStartSend and handleJoinSession call them, followed by setView(shown):
\* a manager in its constructed state takes the place of the one that
\* cancelSession tore down.  The application's connectionState, its queue and
\* the startTransfer invocations under way are left alone.  The manager that
\* was replaced keeps its callbacks: its sendFile calls that were pending
\* stay pending on its closed channel, and a channel of it that can still open
\* will call its onStateChange: the channel of a connection that was replaced
\* in its field, and so was not closed by disconnect(), and the channel such a
\* connection has yet to announce.
NewWebRTCManager(initiator, shown) ==
    /\ retired.managers + 1 < MaxManagers
    /\ isInitiator' = initiator
    /\ socket' = "connecting"
    /\ peerConnection' = "null"
    /\ dataChannel' = "null"
    /\ bufferedAmount' = 0
    /\ torndown' = FALSE
    /\ interrupted' = {}
    /\ announce' = FALSE
    /\ staleAnnounce' = FALSE
    /\ created' = 0
    /\ stateChanges' = <<>>
    /\ channelConn' = 0
    /\ staleChannel' = "none"
    /\ targetSocketId' = "null"
    /\ connectionState' = "none"
    /\ signals' = EmptyMap
    /\ suspended' = {}
    /\ emitted' = <<>>
    /\ applied' = <<>>
    /\ receivedChunks' = EmptyMap
    /\ receivedBytes' = EmptyMap
    /\ startTime' = EmptyMap
    /\ delivered' = 0
    /\ rxProgress' = <<>>
    /\ completed' = <<>>
    /\ arrived' = EmptyMap
    /\ malformed' = 0
    /\ sent' = <<>>
    /\ txProgress' = <<>>
    /\ resetTo' = AppConnectionState
    /\ resetAt' = 0
    /\ view' = [set |-> shown, at |-> 0]
    /\ retired' = [managers |-> retired.managers + 1,
                   calls |-> retired.calls \cup {c \in Calls : pc[c] \in {"wait", "reading"}},
                   opening |-> [retired.opening EXCEPT ![isInitiator] =
                                   @ + (IF staleChannel = "connecting" THEN 1 ELSE 0)
                                     + (IF staleAnnounce THEN 1 ELSE 0)]]
    /\ UNCHANGED <<now, pc, callFile, offset, chunkIndex, callStart, observed, filesToTransfer,
                   task, codec, room>>

\* handleStartSend, from the button of the home view, which cancelSession
\* shows: a new manager is constructed as initiator and the send view is
\* shown.
HandleStartSend ==
    /\ AppView = "home"
    /\ NewWebRTCManager(TRUE, "send")

\* handleJoinSession, from the input of the receive view: a new manager is
\* constructed as responder and the transfer view is shown.
HandleJoinSession ==
    /\ AppView = "receive"
    /\ NewWebRTCManager(FALSE, "transfer")

\* onopen of a channel of a manager that was replaced, constructed as
\* initiator or not: its onStateChange, set by setupManager, sets the
\* application's connectionState to 'connected', and shows the transfer view
\* when that manager is a responder.
RetiredChannelOpen(initiator) ==
    /\ retired.opening[initiator] > 0
    /\ retired' = [retired EXCEPT !.opening[initiator] = @ - 1]
    /\ resetTo' = "connected"
    /\ resetAt' = Len(stateChanges)
    /\ view' = IF initiator THEN view ELSE [set |-> "transfer", at |-> Len(stateChanges)]
    /\ UNCHANGED <<filesToTransfer, task>>
    /\ UNCHANGED <<sessionVars, signalVars, recvVars, sendVars, codec, room>>

\* startTransfer, from a click on Start Transfer (enabled in the send view
\* while the shown state is 'connected' and the queue is not empty, also while
\* an earlier startTransfer is running), up to its first suspension: the
\* metadata is sent on an open channel, and sendFile is called for the first
\* file, which finds the metadata text in the channel's buffer; on a channel
\* that is not open every sendFile returns at once and the loop runs to its
\* end.
StartTransfer(t) ==
    /\ AppView = "send"
    /\ AppConnectionState = "connected"
    /\ filesToTransfer # <<>>
    /\ task[t].status = "idle"
    /\ \A u \in Tasks : (u # t /\ task[u].status = "idle") => t = "t1"
    /\ LET files == filesToTransfer
           first == TaskCalls[t][1]
           depth == bufferedAmount + MetadataLen(files)
       IN  IF dataChannel = "open"
           THEN /\ sent' = Append(sent, MetadataMessage(files))
                /\ bufferedAmount' = depth
                /\ pc' = [pc EXCEPT ![first] = ReadNextChunk(depth)]
                /\ callFile' = [callFile EXCEPT ![first] = files[1]]
                /\ callStart' = [callStart EXCEPT ![first] = now]
                /\ observed' = [observed EXCEPT ![first] = depth]
                /\ task' = [task EXCEPT ![t] = [status |-> "running", i |-> 1, files |-> files]]
           ELSE /\ sent' = sent
                /\ bufferedAmount' = bufferedAmount
                /\ pc' = [c \in Calls |->
                            IF \E k \in 1..Len(files) : TaskCalls[t][k] = c
                            THEN "returned" ELSE pc[c]]
                /\ task' = [task EXCEPT ![t] = [status |-> "done", i |-> Len(files),
                                                files |-> files]]
                /\ UNCHANGED <<callFile, callStart, observed>>
    /\ UNCHANGED <<offset, chunkIndex, txProgress, filesToTransfer, resetAt, resetTo, view, retired>>
    /\ UNCHANGED <<isInitiator, socket, peerConnection, dataChannel, now, torndown, interrupted,
                   announce, staleAnnounce, created, stateChanges, channelConn, staleChannel>>
    /\ UNCHANGED <<signalVars, recvVars, codec, room>>

NextBatch ==
    \/ SocketConnect
    \/ CreatePeerConnection
    \/ OnDataChannel
    \/ OnStaleDataChannel
    \/ ChannelOpen
    \/ StaleChannelOpen
    \/ ChannelClosed
    \/ StaleChannelClosed
    \/ CancelSession
    \/ HandleStartSend
    \/ HandleStartReceive
    \/ HandleJoinSession
    \/ \E initiator \in BOOLEAN : RetiredChannelOpen(initiator)
    \/ \E files \in Batches : SelectFiles(files)
    \/ \E t \in Tasks : StartTransfer(t)
    \/ \E c \in Calls : ReaderLoad(c)
    \/ \E c \in Calls : ReaderError(c)

SpecBatch == Init /\ [][NextBatch]_vars

\* --------------------------------------------------- the room at the relay
(***************************************************************************)
(* The relay (server.ts): its join-room handler (lines 22-27) and its      *)
(* forwarding of offers, answers and candidates (29-48), with the two      *)
(* sessions of a room.  A session's socket is connected and joins, loses   *)
(* its transport and is connected again under another id, and is           *)
(* disconnected for good by disconnect(); its handlers are suspended at    *)
(* each await, as in SpecSignal, and emit after the last.                  *)
(***************************************************************************)

\* A message the relay emits to the socket with id to: a session description
\* or a candidate as its body, the socket that sent it as its origin.
RelayMessage(type, to, from, body) == [type |-> type, to |-> to, from |-> from, body |-> body]

\* A handler of a member suspended at an await: the event it handles, the peer
\* the event named, the connection it created, the call it awaits and the
\* connection that call was made on.
RoomJob(member, handler, peer, conn, stage, on) ==
    [member |-> member, handler |-> handler, peer |-> peer, conn |-> conn, stage |-> stage,
     on |-> on]

\* No handler of member m is suspended at await this.createPeerConnection().
RoomQuiet(m) ==
    \A job \in room.jobs : job.member = m => job.stage # "createPeerConnection"

\* The relay's handler of an event (its type, its target and its body) that
\* is an offer, an answer or a candidate from the socket of member m, in room
\* r: io.to(payload.target).emit(..) reaches the socket
\* that has the id now, and nobody when no socket has it.
Relay(r, m, event) ==
    [r EXCEPT
        !.inflight = [o \in Members |->
                         IF r.id[o] = event.target
                         THEN Append(r.inflight[o],
                                     RelayMessage(event.type, event.target, r.id[m], event.body))
                         ELSE r.inflight[o]],
        !.offered = IF event.type = "offer" THEN r.offered \cup {event.target} ELSE r.offered,
        !.answered = IF event.type = "answer" THEN r.answered \cup {r.id[m]} ELSE r.answered]

\* The relay handles the events of a sequence, in order.
RECURSIVE RelayAll(_, _, _)
RelayAll(r, m, events) ==
    IF events = <<>> THEN r
    ELSE RelayAll(Relay(r, m, Head(events)), m, Tail(events))

\* this.socket.emit(..) of member m: the event goes to the relay when the
\* socket is connected, and is kept by the socket to be sent when it is
\* connected again when it is not.
Emit(r, m, event) ==
    IF r.id[m] = "none"
    THEN [r EXCEPT !.buffered[m] = Append(r.buffered[m], event)]
    ELSE Relay(r, m, event)

\* socket.on('connect') of member m and the relay's join-room: the socket is
\* connected under a new id, sends what it kept while it was not connected,
\* and joins the room; the relay notifies the sockets that are in the room
\* already.
RoomJoin(m) ==
    /\ room.id[m] = "none"
    /\ m \notin room.left
    /\ RoomQuiet(m)
    /\ room.assigned < Len(SocketIds)
    /\ LET id     == SocketIds[room.assigned + 1]
           opened == [room EXCEPT !.id[m] = id, !.assigned = room.assigned + 1,
                                  !.buffered[m] = <<>>]
           sent0  == RelayAll(opened, m, room.buffered[m])
       IN  room' = [sent0 EXCEPT
                       !.inflight = [o \in Members |->
                                        IF o # m /\ sent0.id[o] # "none"
                                        THEN Append(sent0.inflight[o],
                                                    RelayMessage("user-joined", sent0.id[o], id, ""))
                                        ELSE sent0.inflight[o]]]
    /\ UNCHANGED <<sessionVars, signalVars, recvVars, sendVars, appVars, codec>>

\* The socket of member m loses its transport: it is out of the room, and what
\* the relay had emitted to it is lost.  The session is as it was; its socket
\* connects again by itself.
RoomLeave(m) ==
    /\ room.id[m] # "none"
    /\ RoomQuiet(m)
    /\ room' = [room EXCEPT !.id[m] = "none", !.inflight[m] = <<>>]
    /\ UNCHANGED <<sessionVars, signalVars, recvVars, sendVars, appVars, codec>>

\* disconnect() of member m: the connection in its field is closed and its
\* socket is disconnected, which takes it out of the room and ends its
\* reconnecting.  Its suspended handlers emit no more: the promise of a closed
\* connection is not settled, and the socket sends nothing.
RoomDisconnect(m) ==
    /\ m \notin room.left
    /\ RoomQuiet(m)
    /\ room' = [room EXCEPT !.id[m] = "none", !.inflight[m] = <<>>, !.buffered[m] = <<>>,
                            !.left = room.left \cup {m},
                            !.jobs = {job \in room.jobs : job.member # m}]
    /\ UNCHANGED <<sessionVars, signalVars, recvVars, sendVars, appVars, codec>>

\* Member m takes msg to start a handshake: an initiator does so with
\* user-joined, a responder with an offer.
Engages(m, msg) ==
    \/ msg.type = "user-joined" /\ m = "initiator"
    \/ msg.type = "offer" /\ m = "responder"

\* The relay's next message to the socket of member m reaches it and the
\* session handles it, up to the first await: an initiator handling
\* user-joined and a responder handling an offer record the peer, create a
\* connection and are suspended at await this.createPeerConnection(); any
\* other message starts no handshake.
RoomDeliver(m) ==
    /\ room.inflight[m] # <<>>
    /\ LET msg == Head(room.inflight[m])
           conn == room.conns[m] + 1
       IN  IF Engages(m, msg)
           THEN room' = [room EXCEPT
                            !.inflight[m] = Tail(room.inflight[m]),
                            !.target[m] = msg.from,
                            !.conns[m] = conn,
                            !.jobs = room.jobs \cup
                                {RoomJob(m, msg.type, msg.from, conn, "createPeerConnection", conn)}]
           ELSE room' = [room EXCEPT !.inflight[m] = Tail(room.inflight[m])]
    /\ UNCHANGED <<sessionVars, signalVars, recvVars, sendVars, appVars, codec>>

\* The microtasks that end await this.createPeerConnection() of member m:
\* every handler suspended there goes on with the connection the field holds
\* by now.  A user-joined handler calls createOffer, which passes its guard
\* and is suspended in peerConnection.createOffer(); an offer handler hands
\* its offer to setRemoteDescription and is suspended there.
RoomPeerConnectionCreated(m) ==
    /\ ~RoomQuiet(m)
    /\ LET ready == {job \in room.jobs : job.member = m /\ job.stage = "createPeerConnection"}
       IN  room' = [room EXCEPT
                       !.jobs = (room.jobs \ ready) \cup
                           {RoomJob(m, job.handler, job.peer, job.conn,
                                    IF job.handler = "user-joined" THEN "createOffer"
                                    ELSE "setRemoteDescription", room.conns[m]) : job \in ready}]
    /\ UNCHANGED <<sessionVars, signalVars, recvVars, sendVars, appVars, codec>>

\* Another suspended handler of the member awaits the same call on the same
\* connection.
RoomHasRival(job) ==
    \E other \in room.jobs \ {job} :
        other.member = job.member /\ other.stage = job.stage /\ other.on = job.on

\* createOffer of a member, from the end of await peerConnection.createOffer()
\* to the next await: the offer is handed to setLocalDescription of the
\* connection the field holds by then, which rejects an offer another
\* connection created and, where a rival offer was asked for, may reject it as
\* not the last one created; a rejection ends the handler.
RoomOfferCreated(job, accepted) ==
    /\ job \in room.jobs
    /\ RoomQuiet(job.member)
    /\ job.handler = "user-joined"
    /\ job.stage = "createOffer"
    /\ ~accepted => RoomHasRival(job)
    /\ LET m == job.member
       IN  IF accepted /\ room.conns[m] = job.on
           THEN room' = [room EXCEPT
                            !.local[m] = room.local[m] \cup {job.on},
                            !.jobs = (room.jobs \ {job}) \cup
                                {RoomJob(m, job.handler, job.peer, job.conn,
                                         "setLocalDescription", job.on)}]
           ELSE room' = [room EXCEPT !.jobs = room.jobs \ {job}]
    /\ UNCHANGED <<sessionVars, signalVars, recvVars, sendVars, appVars, codec>>

\* createOffer of a member, from the end of await setLocalDescription(offer):
\* the offer is emitted to the peer the field names by then.
RoomOfferReady(job) ==
    /\ job \in room.jobs
    /\ RoomQuiet(job.member)
    /\ job.handler = "user-joined"
    /\ job.stage = "setLocalDescription"
    /\ room' = Emit([room EXCEPT !.jobs = room.jobs \ {job}], job.member,
                    [type |-> "offer", target |-> room.target[job.member], body |-> "sdp"])
    /\ UNCHANGED <<sessionVars, signalVars, recvVars, sendVars, appVars, codec>>

\* The offer handler of a member from the end of await setRemoteDescription to
\* the first await of createAnswer: createAnswer passes its guard and calls
\* peerConnection.createAnswer() on the connection the field holds by then,
\* which rejects when that connection has its answer already.
RoomRemoteDescriptionSet(job) ==
    /\ job \in room.jobs
    /\ RoomQuiet(job.member)
    /\ job.handler = "offer"
    /\ job.stage = "setRemoteDescription"
    /\ LET m == job.member
       IN  IF room.conns[m] \notin room.local[m]
           THEN room' = [room EXCEPT
                            !.jobs = (room.jobs \ {job}) \cup
                                {RoomJob(m, job.handler, job.peer, job.conn, "createAnswer",
                                         room.conns[m])}]
           ELSE room' = [room EXCEPT !.jobs = room.jobs \ {job}]
    /\ UNCHANGED <<sessionVars, signalVars, recvVars, sendVars, appVars, codec>>

\* createAnswer of a member, from the end of await
\* peerConnection.createAnswer() to the next await: the answer is handed to
\* setLocalDescription of the connection the field holds by then.  It is
\* rejected by another connection than the one that created it, by a
\* connection that has its answer already, and, where a rival answer was asked
\* for, it may be rejected as not the last one created.
RoomAnswerCreated(job, accepted) ==
    /\ job \in room.jobs
    /\ RoomQuiet(job.member)
    /\ job.handler = "offer"
    /\ job.stage = "createAnswer"
    /\ ~accepted => RoomHasRival(job)
    /\ LET m == job.member
       IN  IF accepted /\ room.conns[m] = job.on /\ job.on \notin room.local[m]
           THEN room' = [room EXCEPT
                            !.local[m] = room.local[m] \cup {job.on},
                            !.jobs = (room.jobs \ {job}) \cup
                                {RoomJob(m, job.handler, job.peer, job.conn,
                                         "setLocalDescription", job.on)}]
           ELSE room' = [room EXCEPT !.jobs = room.jobs \ {job}]
    /\ UNCHANGED <<sessionVars, signalVars, recvVars, sendVars, appVars, codec>>

\* createAnswer of a member, from the end of await
\* setLocalDescription(answer): the answer is emitted to the peer the field
\* names by then.
RoomAnswerReady(job) ==
    /\ job \in room.jobs
    /\ RoomQuiet(job.member)
    /\ job.handler = "offer"
    /\ job.stage = "setLocalDescription"
    /\ room' = Emit([room EXCEPT !.jobs = room.jobs \ {job}], job.member,
                    [type |-> "answer", target |-> room.target[job.member], body |-> "sdp"])
    /\ UNCHANGED <<sessionVars, signalVars, recvVars, sendVars, appVars, codec>>

\* peerConnection.onicecandidate of member m: a connection of it that has a
\* local description gathers candidate k, and the session emits it to the
\* peer the field names.
RoomCandidate(m, k) ==
    /\ m \notin room.left
    /\ RoomQuiet(m)
    /\ room.local[m] # {}
    /\ <<m, k>> \notin room.gathered
    /\ room' = Emit([room EXCEPT !.gathered = room.gathered \cup {<<m, k>>}], m,
                    [type |-> "ice-candidate", target |-> room.target[m], body |-> k])
    /\ UNCHANGED <<sessionVars, signalVars, recvVars, sendVars, appVars, codec>>

\* The steps the event loops and the browsers take by themselves: a message
\* the relay emitted to a connected socket is handled, and an await of a
\* handler ends.
RoomProgress ==
    \/ \E m \in Members : RoomDeliver(m)
    \/ \E m \in Members : RoomPeerConnectionCreated(m)
    \/ \E job \in room.jobs : \E accepted \in BOOLEAN : RoomOfferCreated(job, accepted)
    \/ \E job \in room.jobs : RoomOfferReady(job)
    \/ \E job \in room.jobs : RoomRemoteDescriptionSet(job)
    \/ \E job \in room.jobs : \E accepted \in BOOLEAN : RoomAnswerCreated(job, accepted)
    \/ \E job \in room.jobs : RoomAnswerReady(job)

NextRoom ==
    \/ \E m \in Members : RoomJoin(m)
    \/ \E m \in Members : RoomLeave(m)
    \/ \E m \in Members : RoomDisconnect(m)
    \/ \E m \in Members : \E k \in Candidates : RoomCandidate(m, k)
    \/ RoomProgress

\* Signaling messages are delivered fairly, and the awaits of the handlers
\* end: a message under way to a socket that stays connected is handled, and
\* a handler that is suspended goes on.  A socket is not bound to stay
\* connected, nor to connect again.
SpecRoom == Init /\ [][NextRoom]_vars /\ WF_vars(RoomProgress)

\* ---------------------------------------------------- the codec on its own
(***************************************************************************)
(* The sender's encoding (lines 238-249 of webrtc.ts) and the receiver's   *)
(* parse (lines 294-302) as a pair of pure functions, applied to arguments *)
(* sendFile accepts: fileId is any string, chunkIndex and totalChunks are  *)
(* counters written with setUint32.                                        *)
(***************************************************************************)

\* A fileId of exactly 36 characters, as uuidv4 produces them.
FileIdFull == [i \in 1..IdLen |-> 97 + (i % 6)]

\* A fileId of as many characters as the header has bytes, and one of one
\* more.
FileIdWide == [i \in 1..HeaderLen |-> 97 + (i % 6)]

FileIdLong == [i \in 1..(HeaderLen + 1) |-> 97 + (i % 6)]

\* The fileIds encoded: "", "A", a full-width one, " A" and "A\t", which carry
\* white space of their own that is not padding, and two longer than the
\* field.
CodecFileIds == {<<>>, FileIdA, FileIdFull, <<Space, 65>>, <<65, 9>>, FileIdWide, FileIdLong}

\* Values of the two header integers: every byte of the field is exercised,
\* up to the largest value the model's integers hold.
CodecIntegers == {0, 1, 256, 65536 + 2, 2147483647}

\* Payloads: empty, one byte, two bytes.
CodecPayloads == {<<>>, <<10>>, <<21, 31>>}

CodecInputs ==
    {[phase |-> "input", fileId |-> f, chunkIndex |-> i, totalChunks |-> n, data |-> d] :
        f \in CodecFileIds, i \in CodecIntegers, n \in CodecIntegers, d \in CodecPayloads}

InitCodec == Constructed /\ codec \in CodecInputs

\* Lines 238-249: the combined buffer the sender hands to send().
Encode ==
    /\ codec.phase = "input"
    /\ codec' = IF Fits(codec.fileId)
                THEN [phase |-> "encoded", input |-> codec,
                      header |-> EncodeHeader(codec.fileId, codec.chunkIndex, codec.totalChunks),
                      buffer |-> EncodeFrame(codec)]
                ELSE [phase |-> "thrown", input |-> codec]
    /\ UNCHANGED <<sessionVars, signalVars, recvVars, sendVars, appVars, room>>

\* Lines 294-302: the fields handleChunk reads back from that buffer.
Decode ==
    /\ codec.phase = "encoded"
    /\ codec' = [phase |-> "decoded", input |-> codec.input, header |-> codec.header,
                 buffer |-> codec.buffer, parsed |-> ParseHeader(codec.buffer)]
    /\ UNCHANGED <<sessionVars, signalVars, recvVars, sendVars, appVars, room>>

NextCodec ==
    \/ Encode
    \/ Decode

SpecCodec == InitCodec /\ [][NextCodec]_vars

\* ------------------------------------------------- claims on the receiver

\* The frames of fileId f handled so far, as the peer sent them.
ArrivedFor(f) == {fr \in DOMAIN arrived : fr.fileId = f}

\* The frames of f handled so far are the n frames of an n-chunk file, each
\* index of 0..n-1 exactly once, all declaring n chunks.
ArrivedExactlyOnce(f, n) ==
    /\ \A fr \in ArrivedFor(f) :
          arrived[fr] = 1 /\ fr.totalChunks = n /\ fr.chunkIndex < n
    /\ {fr.chunkIndex : fr \in ArrivedFor(f)} = 0..(n - 1)
    /\ Cardinality(ArrivedFor(f)) = n

\* The frames of f handled so far are frames of one n-chunk file, possibly
\* repeated and possibly not all of them.
ArrivedWellFormed(f, n) ==
    \A fr \in ArrivedFor(f) : fr.totalChunks = n /\ fr.chunkIndex < n

RECURSIVE ConcatSent(_, _)
\* The payloads the peer sent for indexes 0..n-1 of f, in index order.
ConcatSent(f, n) ==
    IF n = 0 THEN <<>>
    ELSE ConcatSent(f, n - 1)
         \o (CHOOSE fr \in ArrivedFor(f) : fr.chunkIndex = n - 1).data

RECURSIVE SumLen(_, _)
\* The sum of the lengths of the payloads chunks stores at the indexes in is.
SumLen(chunks, is) ==
    IF is = {} THEN 0
    ELSE LET i == CHOOSE x \in is : TRUE
         IN  Len(chunks[i]) + SumLen(chunks, is \ {i})

\* The onFileComplete calls made for f.
CompletionsOf(f) == SelectSeq(completed, LAMBDA e : e.fileId = f)

SizesOfFiles == 1..3

\* C1: when the frames of an n-chunk file (n >= 1) have arrived, each index
\* exactly once and in whatever order, onFileComplete has fired for the file,
\* once, with the payloads concatenated in index order.
C1_ReassemblyInIndexOrder ==
    \A n \in SizesOfFiles :
        ArrivedExactlyOnce(FileIdA, n) =>
            CompletionsOf(FileIdA) = <<[fileId |-> FileIdA, blob |-> ConcatSent(FileIdA, n)]>>

\* C1 witness: the three frames of a three-chunk file have arrived, the one of
\* index 0 last (its sample estimates 3 * 3 bytes), and the file is complete.
C1_Witness ==
    /\ ArrivedExactlyOnce(FileIdA, 3)
    /\ rxProgress # <<>>
    /\ rxProgress[1].totalBytes = JsInt(9)
    /\ CompletionsOf(FileIdA) = <<[fileId |-> FileIdA, blob |-> <<10, 21, 31>>]>>

\* C2: whatever frames of one n-chunk file have arrived, the bytes recorded
\* for its fileId are the sum of the lengths of the payloads stored at its
\* populated indexes (a repeated index counts once).
C2_BytesAreSumOfStored ==
    \A n \in SizesOfFiles : \A f \in DOMAIN receivedBytes :
        ArrivedWellFormed(f, n) =>
            receivedBytes[f] = SumLen(receivedChunks[f], DOMAIN receivedChunks[f])

\* C3: whatever frames of one n-chunk file arrive, repeated or not, before or
\* after the file completed, onFileComplete fires at most once for it.
C3_CompletesAtMostOnce ==
    \A n \in SizesOfFiles :
        ArrivedWellFormed(FileIdA, n) => Len(CompletionsOf(FileIdA)) <= 1

\* C6: when the frames of an n-chunk file have arrived exactly once each, the
\* sample of the frame that completed it reports bytesTransferred = totalBytes
\* = the size of the file, and eta = 0.
C6_FinalSampleIsExact ==
    \A n \in SizesOfFiles :
        (ArrivedExactlyOnce(FileIdA, n) /\ rxProgress # <<>>
            /\ rxProgress[1].fileId = FileIdA) =>
            /\ rxProgress[1].bytesTransferred = Len(ConcatSent(FileIdA, n))
            /\ rxProgress[1].totalBytes = JsInt(Len(ConcatSent(FileIdA, n)))
            /\ rxProgress[1].eta = JsInt(0)

\* C11: a binary message shorter than the 44-byte header leaves
\* receivedChunks, receivedBytes and startTime as they were, emits no sample
\* and no completion; and a frame handled after such a message is processed:
\* it emits its sample.
C11_ShortMessageIsDropped ==
    [][/\ malformed' # malformed =>
            /\ UNCHANGED <<receivedChunks, receivedBytes, startTime, completed>>
            /\ rxProgress' = <<>>
       /\ (malformed > 0 /\ arrived' # arrived) =>
            /\ Len(rxProgress') = 1
            /\ rxProgress'[1].fileId = FileIdA]_vars

\* C11 witness: the first frame of a two-chunk file is stored, then a short
\* message was handled (the last message: no sample), and the entry is intact.
C11_Witness ==
    /\ malformed = 1
    /\ rxProgress = <<>>
    /\ FileIdA \in DOMAIN receivedChunks
    /\ receivedChunks[FileIdA] = MapSet(EmptyMap, 0, PayloadAt(0))
    /\ receivedBytes[FileIdA] = 1

\* --------------------------------------------------- claims on the sender

\* The frames call c handed to the channel, in order.
FramesOfCall(c) == SelectSeq(sent, LAMBDA fr : fr.call = c)

\* The samples call c emitted, in order.
SamplesOfCall(c) == SelectSeq(txProgress, LAMBDA sm : sm.call = c)

RECURSIVE SumSent(_, _)
\* The sum of the payload lengths of the first k frames of frames.
SumSent(frames, k) == IF k = 0 THEN 0 ELSE SumSent(frames, k - 1) + frames[k].len

\* Call c passed the open-channel guard of sendFile.
Started(c) == pc[c] \in {"wait", "reading", "resolved", "rejected", "hung"}

\* Call c has handed the final slice of its file to the channel.
FinalSliceHanded(c) ==
    Started(c) /\ FramesOfCall(c) # <<>> /\ offset[c] >= callFile[c].size

\* C4: a call that waits has observed the buffer above the mark, and from
\* there hands no slice to the channel and emits no sample: its next step is
\* the timer's re-check; and a slice is handed to the channel only by a call
\* whose last check observed the buffer not above the mark.
C4_FlowControl ==
    [][\A c \in Calls :
        /\ pc[c] = "wait" =>
              /\ observed[c] > HighWaterMark
              /\ FramesOfCall(c)' = FramesOfCall(c)
              /\ SamplesOfCall(c)' = SamplesOfCall(c)
              /\ pc'[c] \in {"wait", "reading"}
        /\ (FramesOfCall(c)' # FramesOfCall(c) \/ SamplesOfCall(c)' # SamplesOfCall(c)) =>
              /\ pc[c] = "reading"
              /\ observed[c] <= HighWaterMark
        /\ (pc'[c] = "reading" /\ (pc[c] # "reading" \/ FramesOfCall(c)' # FramesOfCall(c))) =>
              observed'[c] <= HighWaterMark]_vars

\* C4 witness: a call waits, the buffer above the mark, after it has handed a
\* slice of its file to the channel.
C4_Witness ==
    /\ pc["c1"] = "wait"
    /\ observed["c1"] > HighWaterMark
    /\ Len(FramesOfCall("c1")) = 1
    /\ callFile["c1"].size > ChunkSize

\* C5: a sendFile that ran to its end on an open channel has handed exactly
\* totalChunks = ceil(size / 64 KiB) frames to the channel, of chunkIndex 0,
\* 1, ..., totalChunks - 1 in that order, each declaring totalChunks.
C5_FramesAreTheChunks ==
    \A c \in Calls :
        pc[c] = "resolved" =>
            LET frames == FramesOfCall(c)
                n      == TotalChunksOf(callFile[c].size)
            IN  /\ Len(frames) = n
                /\ \A k \in 1..Len(frames) :
                      /\ ParseHeader(frames[k].header).chunkIndex = k - 1
                      /\ ParseHeader(frames[k].header).totalChunks = n

\* C7: once a call has handed its final slice to the channel it has resolved,
\* and its samples are one per slice followed by exactly one more, the last,
\* with bytesTransferred = totalBytes = the size of the file and speed = eta
\* = 0; before that it has emitted one sample per slice and no other.
C7_SenderCompletionSample ==
    \A c \in Calls :
        LET frames  == FramesOfCall(c)
            samples == SamplesOfCall(c)
        IN  IF FinalSliceHanded(c)
            THEN /\ pc[c] = "resolved"
                 /\ Len(samples) = Len(frames) + 1
                 /\ samples[Len(samples)] =
                        [call |-> c, fileId |-> callFile[c].fileId,
                         bytesTransferred |-> callFile[c].size,
                         totalBytes |-> callFile[c].size,
                         speed |-> JsInt(0), eta |-> JsInt(0)]
                 /\ samples[Len(frames)].bytesTransferred = offset[c]
            ELSE Len(samples) = Len(frames)

\* C7 witness: a file of 200000 bytes has been sent in four slices, and the
\* fifth and last sample reports 200000 of 200000 bytes.
C7_Witness ==
    /\ pc["c1"] = "resolved"
    /\ callFile["c1"].size = 200000
    /\ Len(FramesOfCall("c1")) = 4
    /\ Len(SamplesOfCall("c1")) = 5
    /\ SamplesOfCall("c1")[5].bytesTransferred = 200000

\* C8: the bytesTransferred of the successive samples of a call that sends a
\* file of at least one byte never decreases.
C8_SenderBytesMonotonic ==
    \A c \in Calls :
        LET samples == SamplesOfCall(c)
        IN  callFile[c].size > 0 =>
                \A k \in 1..(Len(samples) - 1) :
                    samples[k].bytesTransferred <= samples[k + 1].bytesTransferred

\* C9: the sample emitted after the k-th slice of a call that sends a file of
\* at least one byte carries the sum of the lengths of the k slices handed to
\* the channel so far, which is at most the size of the file.
C9_SenderBytesAreSliceSum ==
    \A c \in Calls :
        LET frames  == FramesOfCall(c)
            samples == SamplesOfCall(c)
        IN  callFile[c].size > 0 =>
                \A k \in 1..Len(samples) :
                    /\ samples[k].bytesTransferred = SumSent(frames, Min(k, Len(frames)))
                    /\ samples[k].bytesTransferred <= samples[k].totalBytes

\* C10: once disconnect() has been invoked, a sendFile that was running at
\* that point hands no further frame to the channel and emits no further
\* sample.
C10_NothingSentAfterDisconnect ==
    [][\A c \in interrupted :
          /\ FramesOfCall(c)' = FramesOfCall(c)
          /\ SamplesOfCall(c)' = SamplesOfCall(c)]_vars

\* ------------------------------------------------ claims on the sendFile API

\* C28: a sendFile call whose send loop has started, and is waiting on the
\* buffer or reading a slice, eventually settles: its promise is resolved or
\* rejected.
C28_SendFileSettles ==
    (pc["c1"] \in {"wait", "reading"}) ~> (pc["c1"] \in {"resolved", "rejected"})

\* How the promise of call c stands.
Outcome(c) ==
    IF pc[c] \in {"returned", "resolved"} THEN "fulfilled"
    ELSE IF pc[c] = "rejected" THEN "rejected"
    ELSE "pending"

\* C16: a sendFile invoked while the channel is absent or not open hands no
\* frame to the channel, emits no sample, and its promise is rejected.
C16_ChannelUnavailableReported ==
    \A c \in Calls :
        pc[c] = "returned" =>
            /\ FramesOfCall(c) = <<>>
            /\ SamplesOfCall(c) = <<>>
            /\ Outcome(c) = "rejected"

\* ---------------------------------------------- claims on the application

\* C15: when the read of a slice of a queued file has failed, the sendFile of
\* the file queued after it has been called.
C15_ReadErrorIsolated ==
    \A t \in Tasks : \A j \in 1..(Len(task[t].files) - 1) :
        pc[TaskCalls[t][j]] = "rejected" => pc[TaskCalls[t][j + 1]] # "idle"

\* The calls on the manager in webrtc whose send loop is in progress.
InProgress == {c \in Calls \ retired.calls : pc[c] \in {"wait", "reading"}}

\* The chunk frames handed to the channel, in order, as their fileIds.
FileIdsSent ==
    LET frames == SelectSeq(sent, LAMBDA m : m.call \in Calls)
    IN  [k \in 1..Len(frames) |-> ParseHeader(frames[k].header).fileId]

\* C17: the send loops in progress are of at most one file, and the frames of
\* a file are contiguous on the channel: none of another file lies between
\* two of them.
C17_OneFileAtATime ==
    /\ Cardinality({callFile[c].fileId : c \in InProgress}) <= 1
    /\ \A i, j, k \in 1..Len(FileIdsSent) :
          (i < j /\ j < k /\ FileIdsSent[i] = FileIdsSent[k]) =>
              FileIdsSent[j] = FileIdsSent[i]

\* The positions in sent of the metadata control messages.
MetadataSent == {k \in 1..Len(sent) : sent[k].call = "metadata"}

\* The fileIds the metadata message at position k announces.
Announced(k) == {sent[k].files[i].fileId : i \in 1..Len(sent[k].files)}

\* C25: on the channel, a chunk frame of a file follows a metadata message
\* that announces the file, and a session sends one metadata message at most,
\* however often the transfer is started.
C25_MetadataOnceBeforeChunks ==
    /\ Cardinality(MetadataSent) <= 1
    /\ \A k \in 1..Len(sent) :
          sent[k].call \in Calls =>
              \E j \in MetadataSent :
                  j < k /\ ParseHeader(sent[k].header).fileId \in Announced(j)

\* ---------------------------------------------------- claims on signaling

\* A signaling message of the given type has been handled.
Handled(type) == type \in DOMAIN signals

\* C12: a candidate is applied to the peer connection only if its sender is
\* the peer the session had recorded when it arrived.
C12_StaleCandidatesIgnored ==
    \A k \in 1..Len(applied) :
        applied[k].what = "candidate" => applied[k].from = applied[k].target

\* C13: an initiator that has handled no user-joined has no peer connection
\* and no byte-channel, has emitted no offer and has none in preparation, and
\* has not reported 'connected', whatever else was delivered to it.
C13_NoPeerNoOffer ==
    (isInitiator /\ ~Handled("user-joined")) =>
        /\ peerConnection = "null"
        /\ dataChannel = "null"
        /\ emitted = <<>>
        /\ suspended = {}
        /\ \A k \in 1..Len(stateChanges) : stateChanges[k] # "connected"

\* C13 witness: an initiator has handled an offer, an answer and a candidate,
\* and no user-joined.
C13_Witness ==
    /\ isInitiator
    /\ ~Handled("user-joined")
    /\ Handled("offer")
    /\ Handled("answer")
    /\ Handled("ice-candidate")
    /\ dataChannel = "null"

\* C14: the byte-channel becoming open is reported by exactly one
\* 'connected', and 'connected' is reported for nothing else; a connection
\* that the transport reports failed is reported by one 'failed'; a
\* disconnect() of a session whose channel is open is reported by one
\* 'disconnected'.
C14_TransitionsReportedOnce ==
    [][LET opened == \/ /\ dataChannel' = "open"
                        /\ \/ dataChannel # "open"
                           \/ announce' # announce
                           \/ staleAnnounce' # staleAnnounce
                     \/ /\ staleChannel = "connecting"
                        /\ staleChannel' = "open"
                        /\ created' = created
           failed == connectionState' = "failed" /\ connectionState # "failed"
           closed == torndown' /\ ~torndown /\ dataChannel = "open"
       IN  /\ opened => stateChanges' = Append(stateChanges, "connected")
           /\ failed => stateChanges' = Append(stateChanges, "failed")
           /\ closed => stateChanges' = Append(stateChanges, "disconnected")
           /\ (stateChanges' = Append(stateChanges, "connected")) => opened]_vars

\* ------------------------------------------------------ claims on the codec

\* C18: parsing the frame the sender's encoding builds yields the fileId,
\* chunkIndex, totalChunks and payload that were encoded, for every fileId of
\* at most 36 characters, and the header is exactly 44 bytes long.
C18_CodecRoundTrip ==
    /\ codec.phase \in {"encoded", "decoded"} => Len(codec.header) = HeaderLen
    /\ (codec.phase = "decoded" /\ Len(codec.input.fileId) <= IdLen) =>
           /\ codec.parsed.fileId = codec.input.fileId
           /\ codec.parsed.chunkIndex = codec.input.chunkIndex
           /\ codec.parsed.totalChunks = codec.input.totalChunks
           /\ codec.parsed.data = codec.input.data

\* --------------------------------------------------- claims on the estimator

\* The progress samples reported so far, by sendFile and by handleChunk.
Samples ==
    {txProgress[i] : i \in 1..Len(txProgress)} \cup {rxProgress[i] : i \in 1..Len(rxProgress)}

\* C19: every progress sample of sendFile and of handleChunk has a speed that
\* is a number >= 0, never the quotient of a division by an elapsed time of
\* zero (Infinity or NaN), and an eta that is neither NaN nor negative.
C19_EstimatorSanity ==
    \A sample \in Samples :
        /\ IsFinite(sample.speed)
        /\ sample.speed.num >= 0
        /\ ~IsNaN(sample.eta)
        /\ sample.eta.num >= 0

\* ---------------------------------------------------- claims on completion

\* The indexes of file f that hold a payload once the frame fr is stored.
PopulatedAfter(f, fr) ==
    (IF f \in DOMAIN receivedChunks THEN DOMAIN receivedChunks[f] ELSE {}) \cup {fr.chunkIndex}

\* C20: handling a frame fires onFileComplete for its fileId if and only if,
\* with the frame stored, every index in 0..totalChunks-1 holds a payload (an
\* empty range included); when it fires, the entries of that fileId in
\* receivedChunks, receivedBytes and startTime are deleted.
C20_CompletionCondition ==
    [][\A f \in {FileIdA, FileIdB} : \A fr \in FramesOf(f) :
          (/\ delivered' = delivered + 1
           /\ malformed' = malformed
           /\ fr \in DOMAIN arrived'
           /\ (fr \in DOMAIN arrived => arrived'[fr] = arrived[fr] + 1)) =>
              /\ (Len(completed') = Len(completed) + 1)
                     <=> (\A i \in 0..(fr.totalChunks - 1) : i \in PopulatedAfter(f, fr))
              /\ Len(completed') = Len(completed) + 1 =>
                     /\ completed'[Len(completed')].fileId = f
                     /\ f \notin DOMAIN receivedChunks'
                     /\ f \notin DOMAIN receivedBytes'
                     /\ f \notin DOMAIN startTime']_vars

\* ------------------------------------------ claims on concurrent signaling

\* C21: every answer a responder emits is addressed to the caller whose offer
\* it answers, however the inbound offers interleave with the awaits of the
\* offer handler.
C21_AnswerGoesToItsCaller ==
    \A k \in 1..Len(emitted) :
        emitted[k].type = "answer" => emitted[k].target = emitted[k].for

\* The connections created and not closed: each keeps the handlers that
\* createPeerConnection installed on it and on its channel.
LiveConnections == {x \in 1..created : ~IsClosed(x)}

\* C22: a session has at most one live peer connection wired to its handlers;
\* a second user-joined or offer leaves no earlier connection open.
C22_AtMostOneLiveConnection == Cardinality(LiveConnections) <= 1

\* C23: a signaling event whose handler creates a connection or hands a
\* description or candidate to one is handled only when the handler of every
\* earlier event has run to completion: none is suspended at an await.
C23_HandlersRunToCompletion ==
    [][(signals' # signals /\ (created' # created \/ applied' # applied)) => suspended = {}]_vars

\* ------------------------------------------------------ claims on teardown

\* C24: once disconnect() has been invoked, receivedChunks, receivedBytes and
\* startTime hold no entry, whatever files were partially received.
C24_TeardownDiscardsFiles ==
    torndown =>
        /\ receivedChunks = EmptyMap
        /\ receivedBytes = EmptyMap
        /\ startTime = EmptyMap

\* ------------------------------------------------ claims on the three maps

\* The entry of file f in a map, or "none".
EntryOf(m, f) == IF f \in DOMAIN m THEN <<m[f]>> ELSE <<>>

\* C26: handling a frame of one file leaves the entries of every other file
\* in receivedChunks, receivedBytes and startTime as they were, and a
\* completion it fires is that of its own file.
C26_PerFileIsolation ==
    [][\A fr \in InterleavedFrames :
          (/\ delivered' = delivered + 1
           /\ fr \in DOMAIN arrived'
           /\ (fr \in DOMAIN arrived => arrived'[fr] = arrived[fr] + 1)) =>
              /\ \A g \in {FileIdA, FileIdB} \ {fr.fileId} :
                     /\ EntryOf(receivedChunks', g) = EntryOf(receivedChunks, g)
                     /\ EntryOf(receivedBytes', g) = EntryOf(receivedBytes, g)
                     /\ EntryOf(startTime', g) = EntryOf(startTime, g)
              /\ \A k \in (Len(completed) + 1)..Len(completed') :
                     completed'[k].fileId = fr.fileId]_vars

\* C26 witness: the frames of A and B arrived interleaved, B first; A
\* completed with its own byte while B was in flight, then B with its three.
C26_Witness ==
    /\ Len(completed) = 2
    /\ completed[1] = [fileId |-> FileIdA, blob |-> PayloadAt(0)]
    /\ completed[2] = [fileId |-> FileIdB, blob |-> PayloadAt(0) \o PayloadAt(1)]
    /\ receivedChunks = EmptyMap

\* C29: receivedChunks, receivedBytes and startTime have the same fileIds as
\* keys in every state of the receiver.
C29_SameKeys ==
    /\ DOMAIN receivedChunks = DOMAIN receivedBytes
    /\ DOMAIN receivedBytes = DOMAIN startTime

\* C29 witness: a file completed and its entries were removed, a message too
\* short to parse was dropped, and the first frame of the file arrived again:
\* it has its entry in each map.
C29_Witness ==
    /\ Len(completed) = 1
    /\ malformed = 1
    /\ FileIdA \in DOMAIN receivedChunks
    /\ FileIdA \in DOMAIN receivedBytes
    /\ FileIdA \in DOMAIN startTime

\* ------------------------------------------------------ claims on the room

\* Both sessions are in the room.
BothJoined == \A m \in Members : room.id[m] # "none"

\* The initiator has sent an offer to the socket the responder has, and the
\* responder has sent an answer from it.
Shaken ==
    /\ room.id["responder"] \in room.offered
    /\ room.id["responder"] \in room.answered

\* C27: once the initiator and the responder are both in the room, having
\* joined in either order, and for as long as both stay in it, the initiator
\* eventually sends an offer to the responder and the responder eventually
\* replies with an answer.  The rooms looked at are those in which a socket
\* could still connect again: the relay has an id left to assign.
C27_HandshakeRegardlessOfOrder ==
    (BothJoined /\ room.assigned < Len(SocketIds)) ~> (Shaken \/ ~BothJoined)

====
